---- MODULE Spec2Model ----
(***************************************************************************)
(* Fixed-capacity containers of the workshop corpus:                       *)
(*   memory-safety/memory_safety.c      MessageQueue, HashTable (string    *)
(*                                      keys), ObjectPool                  *)
(*   nasa-rules/rule02_loop_bounds.c    RingBuffer                         *)
(*   nasa-rules/rule03_no_dynamic_memory.c  ObjectPool, EventQueue,        *)
(*                                      HashTable (integer keys)           *)
(* Every file is an independent executable, so each family of containers   *)
(* has its own specification (SpecRing, SpecPool, SpecHash); within a      *)
(* family a selector chosen in the initial state says which file's         *)
(* container the run is about.                                             *)
(*                                                                         *)
(* Capacities and string sizes are the source's #defines scaled down so    *)
(* that every slot, every wrap-around and every truncation is reached;     *)
(* the code is parametric in them.  Strings are sequences of character     *)
(* codes without the terminating NUL.  Pointers into an array are          *)
(* addresses in units of one element.                                      *)
(***************************************************************************)
EXTENDS Integers, Sequences, FiniteSets, TLC

\* ------------------------------------------------------------------ bounds
\* memory_safety.c:141  #define MAX_MESSAGES 64   (scaled)
MS_MAX_MESSAGES == 3
\* memory_safety.c:142  #define MESSAGE_SIZE 128  (scaled)
MESSAGE_SIZE == 3
\* rule02_loop_bounds.c:16  #define MAX_BUFFER_SIZE 256  (scaled)
MAX_BUFFER_SIZE == 3
\* rule03_no_dynamic_memory.c:19  #define MAX_EVENTS 64  (scaled)
MAX_EVENTS == 3
\* successful pushes a run of a ring buffer makes at most
MaxPush == 5
\* longest text handed to msg_queue_push: one longer than a message holds
MaxTextLen == 3

\* memory_safety.c:468  #define POOL_SIZE 32  (scaled)
POOL_SIZE == 3
\* rule03_no_dynamic_memory.c:17  #define MAX_OBJECTS 32  (scaled)
MAX_OBJECTS == 3
\* address of objects[0] of a pool, in units of one PoolObject; 0 is NULL
POOL_BASE == 2
\* memory_safety.c:234  #define HASH_TABLE_SIZE 128  (scaled)
MS_HASH_TABLE_SIZE == 3
\* memory_safety.c:235  #define KEY_SIZE 32  (scaled)
KEY_SIZE == 3
\* memory_safety.c:236  #define VALUE_SIZE 64  (scaled)
VALUE_SIZE == 3
\* rule03_no_dynamic_memory.c:330  #define HASH_TABLE_SIZE 32  (scaled)
R3_HASH_TABLE_SIZE == 3
\* longest key and value handed to the string-keyed table: one longer than
\* an entry holds
MaxKeyLen == 3
MaxValLen == 3

\* memory_safety.c:366  #define ARENA_SIZE 4096  (scaled)
ARENA_SIZE == 24
\* bits of a size_t in the arena's arithmetic (scaled from 64)
SIZE_T_BITS == 6
\* address malloc gave the arena's buffer
ARENA_BUF == 16
\* arena_alloc calls made at most between two arena_reset
MaxAllocs == 3
\* rule03_no_dynamic_memory.c:216  #define MAX_NODES 100  (scaled)
MAX_NODES == 3
\* rule02_loop_bounds.c:136  #define MAX_RETRIES 5
MAX_RETRIES == 5
\* the values rand() returns are 0..MaxRand
MaxRand == 5
\* fopen and malloc return NULL or one of the addresses 1..MaxHandles
MaxHandles == 5
\* fread returns 0..MaxRead
MaxRead == 2
\* ex03_static_memory.c:19  #define MAX_SENSORS 10  (scaled)
MAX_SENSORS == 2
\* ex03_static_memory.c:21  #define MAX_DATA_POINTS 256  (scaled)
MAX_DATA_POINTS == 2
\* calls of app_init, app_run_cycle and app_shutdown in one run
MaxAppCalls == 4
\* nasa_rules.c:68  #define BUFFER_SIZE 256  (scaled)
BUFFER_SIZE == 3

Min(a, b) == IF a < b THEN a ELSE b

\* ------------------------------------------------------------------ inputs
\* a text of n characters 'a'
TextOf(n) == [i \in 1..n |-> 97]
MsgTexts == {TextOf(n) : n \in (MaxTextLen - 1)..MaxTextLen}
Priorities == {1, 2}
Bytes == {10, 11}
EventInputs == {[type |-> 1, data |-> 100, timestamp |-> 1000],
                [type |-> 2, data |-> 200, timestamp |-> 2000]}

strncpy_WholeBuffer(src, n) == SubSeq(src, 1, Min(Len(src), n + 1))

\* strncpy(dst, src, n); dst[n] = '\0' : the C string left in dst
strncpy(src, n) == SubSeq(src, 1, Min(Len(src), n))

VARIABLES
    rsel,       \* which ring buffer this run exercises: "msg", "rb" or "ev"
    mq,         \* MessageQueue  (memory_safety.c)
    rb,         \* RingBuffer    (rule02_loop_bounds.c)
    eq,         \* g_event_queue (rule03_no_dynamic_memory.c)
    rop,        \* the last call: "init", "push" or "pop"
    rret,       \* its return value
    pushed,     \* the text and priority handed to the last msg_queue_push
    msg_out,    \* the caller's Message for msg_queue_pop
    byte_out,   \* the caller's uint8_t for ring_buffer_read
    event_out,  \* the caller's Event for event_queue_pop
    fifo,       \* history: items of successful pushes not yet popped
    npush,      \* history: number of successful pushes
    npop,       \* history: number of successful pops
    run         \* history: pushes called in a row on a buffer that was
                \* empty before the first of them (-1: no such row;
                \* counted up to capacity + 1)

VARIABLES
    psel,       \* which object pool this run exercises: "ms" or "r3"
    ms_pool,    \* ObjectPool pool   (memory_safety.c)
    r3_pool,    \* g_object_pool     (rule03_no_dynamic_memory.c)
    pop,        \* the last call: "init", "acquire", "release" or "write"
    parg,       \* the pointer handed to the last pool_release
    pret,       \* the pointer the last pool_acquire returned
    plog,       \* the message the last call printed ("" for none)
    held        \* history: the slots handed out by pool_acquire since the
                \* last pool_init and not given back by an accepted release

VARIABLES
    hsel,       \* which hash table this run exercises: "ms" or "r3"
    ms_table,   \* HashTable table   (memory_safety.c)
    r3_table,   \* g_hash_table      (rule03_no_dynamic_memory.c)
    hop,        \* the last call: "init", "insert" or "get"
    hkey,       \* its key
    hval,       \* the value of the last insert
    hret,       \* the return value of the last call
    hout,       \* the caller's out_value / *out_value
    hseen,      \* history: the slots the last insert, get or lookup examined, in turn
    ok_keys     \* history: the keys whose insert returned true

VARIABLES
    arena,      \* the Arena arena_create returned: capacity and used
    aop,        \* the last call: "create", "alloc" or "reset"
    asize,      \* the size handed to the last arena_alloc
    aret,       \* the pointer the last arena_alloc returned
    since,      \* history: the sizes asked for since the last arena_reset
    was_reset   \* history: arena_reset was called

ringVars == <<rsel, mq, rb, eq, rop, rret, pushed, msg_out, byte_out, event_out,
              fifo, npush, npop, run>>
poolVars == <<psel, ms_pool, r3_pool, pop, parg, pret, plog, held>>
hashVars == <<hsel, ms_table, r3_table, hop, hkey, hval, hret, hout, hseen, ok_keys>>
VARIABLES
    g_list,     \* the StaticList: nodes, head, count
    lop,        \* the last call: "static", "init", "add" or "print"
    lret,       \* what the last list_add returned
    lpc,        \* "loop" while list_print is in its while loop, else "idle"
    lcurrent,   \* list_print: current
    iterations, \* list_print: iterations
    printed,    \* the values list_print has printed in this call
    visited,    \* history: the node indices list_print has read in this call
    added       \* history: the values added since the list was empty

VARIABLES
    retries,    \* good_retry_with_limit: attempts
    succeeded,  \* good_retry_with_limit: success
    tpc,        \* "loop" in the while loop, "done" once it has returned
    tret,       \* what good_retry_with_limit returned
    draws       \* history: the values rand() returned, in turn

VARIABLES
    cfn,        \* the function called last: "none", "grm", "gcp" or "gcr"
    cevents,    \* its library calls, in turn: [op, h, n] with h the FILE* or
                \* buffer and n the value returned (0 where there is none)
    cret        \* what it returned

VARIABLES
    g_sensor_pool,  \* the SensorPool: sensors, allocated_count
    sop,        \* the last call: "static", "init", "create", "destroy", "add"
    sarg,       \* the StaticSensor* handed to the last call
    sval,       \* the value handed to the last good_add_data_point
    sptr,       \* the StaticSensor* the last good_create_sensor returned
    sret,       \* what the last good_add_data_point returned
    soob        \* history: the index of data[] last written, -1 before any

VARIABLES
    app,        \* the Application
    apcall,     \* the last call: "none", "init", "run" or "shutdown"
    apret,      \* what the last app_init returned
    hal,        \* history: the calls made through the HAL interfaces, in turn
    shut,       \* history: app_shutdown was called and app_init not since
    crashed,    \* a call through a NULL interface pointer ended the program
    ncalls      \* history: number of calls made

VARIABLES
    sort_data,  \* the array of sort_size ints handed to sort_array
    sort_size,  \* its size argument
    sort_i,     \* the outer loop's i
    sort_j,     \* the inner loop's j
    sort_pc,    \* where sort_array is: "outer", "inner", "done" or "fault"
    comparisons,    \* history: evaluations of data[j] > data[j + 1]
    sort_outside    \* history: an index outside [0, size) was read or written

arenaVars == <<arena, aop, asize, aret, since, was_reset>>
\* the families added to the three containers above
listVars == <<g_list, lop, lret, lpc, lcurrent, iterations, printed, visited, added>>
retryVars == <<retries, succeeded, tpc, tret, draws>>
cleanupVars == <<cfn, cevents, cret>>
moreVars == <<arenaVars, listVars, retryVars, cleanupVars>>
\* the container families and those above, together
earlyVars == <<ringVars, poolVars, hashVars, arenaVars, listVars, retryVars, cleanupVars>>
sensorVars == <<g_sensor_pool, sop, sarg, sval, sptr, sret, soob>>
appVars == <<app, apcall, apret, hal, shut, crashed, ncalls>>
sortVars == <<sort_data, sort_size, sort_i, sort_j, sort_pc, comparisons, sort_outside>>
lateVars == <<sensorVars, appVars, sortVars>>
vars == <<ringVars, poolVars, hashVars, moreVars, lateVars>>

\* ============================================================ MessageQueue
ZeroMessage == [text |-> <<>>, timestamp |-> 0, priority |-> 0]

\* memset(queue, 0, sizeof(MessageQueue))
msg_queue_init ==
    [messages |-> [i \in 0..(MS_MAX_MESSAGES - 1) |-> ZeroMessage],
     head |-> 0, tail |-> 0, count |-> 0]

\* the Message msg_queue_push builds in its slot
StoredMessage(text, priority, count) ==
    [text |-> strncpy(text, MESSAGE_SIZE - 1),
     timestamp |-> count,
     priority |-> priority]

msg_queue_push_NoFullCheck(queue, text, priority) ==
    [queue |-> [queue EXCEPT
                  !.messages[queue.tail] =
                      StoredMessage(text, priority, queue.count),
                  !.tail = (queue.tail + 1) % MS_MAX_MESSAGES,
                  !.count = queue.count + 1],
     ret |-> TRUE]

msg_queue_push(queue, text, priority) ==
    IF queue.count >= MS_MAX_MESSAGES
    THEN [queue |-> queue, ret |-> FALSE]
    ELSE [queue |-> [queue EXCEPT
                       !.messages[queue.tail] =
                           StoredMessage(text, priority, queue.count),
                       !.tail = (queue.tail + 1) % MS_MAX_MESSAGES,
                       !.count = queue.count + 1],
          ret |-> TRUE]

msg_queue_pop_CopyFirst(queue, out) ==
    IF queue.count = 0
    THEN [queue |-> queue, out |-> queue.messages[queue.head], ret |-> FALSE]
    ELSE [queue |-> [queue EXCEPT
                       !.head = (queue.head + 1) % MS_MAX_MESSAGES,
                       !.count = queue.count - 1],
          out |-> queue.messages[queue.head],
          ret |-> TRUE]

msg_queue_pop(queue, out) ==
    IF queue.count = 0
    THEN [queue |-> queue, out |-> out, ret |-> FALSE]
    ELSE [queue |-> [queue EXCEPT
                       !.head = (queue.head + 1) % MS_MAX_MESSAGES,
                       !.count = queue.count - 1],
          out |-> queue.messages[queue.head],
          ret |-> TRUE]

\* ============================================================== RingBuffer
\* head is the write index, tail the read index
ring_buffer_init(r) == [r EXCEPT !.head = 0, !.tail = 0, !.count = 0]

ring_buffer_write(r, byte) ==
    IF r.count >= MAX_BUFFER_SIZE
    THEN [rb |-> r, ret |-> FALSE]
    ELSE [rb |-> [r EXCEPT !.data[r.head] = byte,
                           !.head = (r.head + 1) % MAX_BUFFER_SIZE,
                           !.count = r.count + 1],
          ret |-> TRUE]

ring_buffer_read_AtHead(r, byte) ==
    IF r.count = 0
    THEN [rb |-> r, out |-> byte, ret |-> FALSE]
    ELSE [rb |-> [r EXCEPT !.tail = (r.tail + 1) % MAX_BUFFER_SIZE,
                           !.count = r.count - 1],
          out |-> r.data[(r.head + MAX_BUFFER_SIZE - 1) % MAX_BUFFER_SIZE],
          ret |-> TRUE]

ring_buffer_read(r, byte) ==
    IF r.count = 0
    THEN [rb |-> r, out |-> byte, ret |-> FALSE]
    ELSE [rb |-> [r EXCEPT !.tail = (r.tail + 1) % MAX_BUFFER_SIZE,
                           !.count = r.count - 1],
          out |-> r.data[r.tail],
          ret |-> TRUE]

\* ============================================================== EventQueue
ZeroEvent == [type |-> 0, data |-> 0, timestamp |-> 0]

\* memset(&g_event_queue, 0, sizeof(g_event_queue))
event_queue_init ==
    [events |-> [i \in 0..(MAX_EVENTS - 1) |-> ZeroEvent],
     head |-> 0, tail |-> 0, count |-> 0]

event_queue_push_Overwrite(q, type, data, timestamp) ==
    IF q.count >= MAX_EVENTS
    THEN [queue |-> [q EXCEPT
                       !.events[q.head] = [type |-> type, data |-> data,
                                           timestamp |-> timestamp],
                       !.head = (q.head + 1) % MAX_EVENTS,
                       !.tail = (q.tail + 1) % MAX_EVENTS],
          ret |-> TRUE]
    ELSE [queue |-> [q EXCEPT
                       !.events[q.head] = [type |-> type, data |-> data,
                                           timestamp |-> timestamp],
                       !.head = (q.head + 1) % MAX_EVENTS,
                       !.count = q.count + 1],
          ret |-> TRUE]

event_queue_push(q, type, data, timestamp) ==
    IF q.count >= MAX_EVENTS
    THEN [queue |-> q, ret |-> FALSE]
    ELSE [queue |-> [q EXCEPT
                       !.events[q.head] = [type |-> type, data |-> data,
                                           timestamp |-> timestamp],
                       !.head = (q.head + 1) % MAX_EVENTS,
                       !.count = q.count + 1],
          ret |-> TRUE]

\* the pop without tail = (tail + 1) % MAX_EVENTS
event_queue_pop_KeepTail(q, out_event) ==
    IF q.count = 0
    THEN [queue |-> q, out |-> out_event, ret |-> FALSE]
    ELSE [queue |-> [q EXCEPT !.tail = q.tail,
                              !.count = q.count - 1],
          out |-> q.events[q.tail],
          ret |-> TRUE]

event_queue_pop(q, out_event) ==
    IF q.count = 0
    THEN [queue |-> q, out |-> out_event, ret |-> FALSE]
    ELSE [queue |-> [q EXCEPT !.tail = (q.tail + 1) % MAX_EVENTS,
                              !.count = q.count - 1],
          out |-> q.events[q.tail],
          ret |-> TRUE]

\* ------------------------------------------------------ ring buffer actions
\* capacity of the ring buffer this run exercises
Capacity ==
    CASE rsel = "msg" -> MS_MAX_MESSAGES
      [] rsel = "rb" -> MAX_BUFFER_SIZE
      [] rsel = "ev" -> MAX_EVENTS

\* history of a push that returned ret and stored item
PushHistory(ret, item) ==
    /\ rop' = "push"
    /\ rret' = ret
    /\ fifo' = IF ret THEN Append(fifo, item) ELSE fifo
    /\ npush' = IF ret THEN npush + 1 ELSE npush
    /\ npop' = npop
    /\ run' = IF run = -1 THEN -1 ELSE Min(run + 1, Capacity + 1)

\* history of a pop that returned ret and left count items
PopHistory(ret, count) ==
    /\ rop' = "pop"
    /\ rret' = ret
    /\ fifo' = IF ret THEN Tail(fifo) ELSE fifo
    /\ npop' = IF ret THEN npop + 1 ELSE npop
    /\ npush' = npush
    /\ run' = IF count = 0 THEN 0 ELSE -1

InitHistory ==
    /\ rop' = "init"
    /\ rret' = TRUE
    /\ fifo' = <<>>
    /\ run' = 0
    /\ UNCHANGED <<npush, npop>>

MsgQueueInit ==
    /\ rsel = "msg"
    /\ mq' = msg_queue_init
    /\ InitHistory
    /\ UNCHANGED <<rsel, pushed, rb, eq, msg_out, byte_out, event_out>>
    /\ UNCHANGED <<poolVars, hashVars, moreVars, lateVars>>

MsgQueuePush(text, priority) ==
    /\ rsel = "msg"
    /\ npush < MaxPush
    /\ LET r == msg_queue_push(mq, text, priority) IN
         /\ mq' = r.queue
         /\ PushHistory(r.ret, StoredMessage(text, priority, mq.count))
    /\ pushed' = [text |-> text, priority |-> priority]
    /\ UNCHANGED <<rsel, rb, eq, msg_out, byte_out, event_out>>
    /\ UNCHANGED <<poolVars, hashVars, moreVars, lateVars>>

MsgQueuePop ==
    /\ rsel = "msg"
    /\ LET r == msg_queue_pop(mq, msg_out) IN
         /\ mq' = r.queue
         /\ msg_out' = r.out
         /\ PopHistory(r.ret, r.queue.count)
    /\ UNCHANGED <<rsel, pushed, rb, eq, byte_out, event_out>>
    /\ UNCHANGED <<poolVars, hashVars, moreVars, lateVars>>

RingBufferInit ==
    /\ rsel = "rb"
    /\ rb' = ring_buffer_init(rb)
    /\ InitHistory
    /\ UNCHANGED <<rsel, pushed, mq, eq, msg_out, byte_out, event_out>>
    /\ UNCHANGED <<poolVars, hashVars, moreVars, lateVars>>

RingBufferWrite(byte) ==
    /\ rsel = "rb"
    /\ npush < MaxPush
    /\ LET r == ring_buffer_write(rb, byte) IN
         /\ rb' = r.rb
         /\ PushHistory(r.ret, byte)
    /\ UNCHANGED <<rsel, pushed, mq, eq, msg_out, byte_out, event_out>>
    /\ UNCHANGED <<poolVars, hashVars, moreVars, lateVars>>

RingBufferRead ==
    /\ rsel = "rb"
    /\ LET r == ring_buffer_read(rb, byte_out) IN
         /\ rb' = r.rb
         /\ byte_out' = r.out
         /\ PopHistory(r.ret, r.rb.count)
    /\ UNCHANGED <<rsel, pushed, mq, eq, msg_out, event_out>>
    /\ UNCHANGED <<poolVars, hashVars, moreVars, lateVars>>

EventQueueInit ==
    /\ rsel = "ev"
    /\ eq' = event_queue_init
    /\ InitHistory
    /\ UNCHANGED <<rsel, pushed, mq, rb, msg_out, byte_out, event_out>>
    /\ UNCHANGED <<poolVars, hashVars, moreVars, lateVars>>

EventQueuePush(e) ==
    /\ rsel = "ev"
    /\ npush < MaxPush
    /\ LET r == event_queue_push(eq, e.type, e.data, e.timestamp) IN
         /\ eq' = r.queue
         /\ PushHistory(r.ret, e)
    /\ UNCHANGED <<rsel, pushed, mq, rb, msg_out, byte_out, event_out>>
    /\ UNCHANGED <<poolVars, hashVars, moreVars, lateVars>>

EventQueuePop ==
    /\ rsel = "ev"
    /\ LET r == event_queue_pop(eq, event_out) IN
         /\ eq' = r.queue
         /\ event_out' = r.out
         /\ PopHistory(r.ret, r.queue.count)
    /\ UNCHANGED <<rsel, pushed, mq, rb, msg_out, byte_out>>
    /\ UNCHANGED <<poolVars, hashVars, moreVars, lateVars>>

\* the state after msg_queue_init / ring_buffer_init / event_queue_init;
\* ring_buffer_init leaves the data of a RingBuffer on the stack as it finds it
InitRingVars ==
    /\ rsel \in {"msg", "rb", "ev"}
    /\ mq = msg_queue_init
    /\ rb \in [data : [0..(MAX_BUFFER_SIZE - 1) -> {0, 10}],
               head : {0}, tail : {0}, count : {0}]
    /\ (rsel # "rb") => (rb.data = [i \in 0..(MAX_BUFFER_SIZE - 1) |-> 0])
    /\ eq = event_queue_init
    /\ rop = "init"
    /\ rret = TRUE
    /\ pushed = [text |-> <<>>, priority |-> 0]
    /\ msg_out = ZeroMessage
    /\ byte_out = 0
    /\ event_out = ZeroEvent
    /\ fifo = <<>>
    /\ npush = 0
    /\ npop = 0
    /\ run = 0

NextRing ==
    \/ MsgQueueInit
    \/ \E t \in MsgTexts, p \in Priorities : MsgQueuePush(t, p)
    \/ MsgQueuePop
    \/ RingBufferInit
    \/ \E b \in Bytes : RingBufferWrite(b)
    \/ RingBufferRead
    \/ EventQueueInit
    \/ \E e \in EventInputs : EventQueuePush(e)
    \/ EventQueuePop

\* ============================================================= object pools
NULL == 0
\* &pool->objects[i]
ObjAddr(i) == POOL_BASE + i

\* ---- memory_safety.c
ZeroPoolObject == [id |-> 0, data |-> 0, in_use |-> FALSE]

\* memset(pool, 0, sizeof(ObjectPool)); every in_use = false
ms_pool_init ==
    [objects |-> [i \in 0..(POOL_SIZE - 1) |-> ZeroPoolObject],
     allocated_count |-> 0]

\* the scan of pool_acquire from slot i on: the first slot not in use, or
\* POOL_SIZE when the loop runs out
RECURSIVE ms_first_free(_, _)
ms_first_free(pool, i) ==
    IF i >= POOL_SIZE THEN POOL_SIZE
    ELSE IF ~pool.objects[i].in_use THEN i
    ELSE ms_first_free(pool, i + 1)

\* the scan without its in_use test: slot 0 whatever its flag
ms_pool_acquire_NoInUseTest(pool) ==
    [pool |-> [pool EXCEPT
                 !.objects[0].in_use = TRUE,
                 !.objects[0].id = 0,
                 !.allocated_count = pool.allocated_count + 1],
     ret |-> ObjAddr(0), log |-> ""]

ms_pool_acquire_CountFirst(pool) ==
    LET i == ms_first_free(pool, 0)
        p == [pool EXCEPT !.allocated_count = pool.allocated_count + 1] IN
    IF i < POOL_SIZE
    THEN [pool |-> [p EXCEPT !.objects[i].in_use = TRUE,
                             !.objects[i].id = i],
          ret |-> ObjAddr(i), log |-> ""]
    ELSE [pool |-> p, ret |-> NULL, log |-> "Pool exhausted"]

ms_pool_acquire(pool) ==
    LET i == ms_first_free(pool, 0) IN
    IF i < POOL_SIZE
    THEN [pool |-> [pool EXCEPT
                      !.objects[i].in_use = TRUE,
                      !.objects[i].id = i,
                      !.allocated_count = pool.allocated_count + 1],
          ret |-> ObjAddr(i), log |-> ""]
    ELSE [pool |-> pool, ret |-> NULL, log |-> "Pool exhausted"]

\* obj is not NULL (the function asserts it)
ms_pool_release(pool, obj) ==
    IF obj < ObjAddr(0) \/ obj >= ObjAddr(0) + POOL_SIZE
    THEN [pool |-> pool, log |-> "Object not from this pool", accepted |-> FALSE]
    ELSE IF ~pool.objects[obj - ObjAddr(0)].in_use
    THEN [pool |-> pool, log |-> "Double free detected", accepted |-> FALSE]
    ELSE [pool |-> [pool EXCEPT
                      !.objects[obj - ObjAddr(0)] = ZeroPoolObject,
                      !.allocated_count = pool.allocated_count - 1],
          log |-> "", accepted |-> TRUE]

\* ---- rule03_no_dynamic_memory.c
\* static ObjectPool g_object_pool = {0}
r3_pool_static ==
    [objects |-> [i \in 0..(MAX_OBJECTS - 1) |->
                    [id |-> 0, active |-> FALSE, data |-> 0]],
     allocated_count |-> 0]

r3_pool_init ==
    [objects |-> [i \in 0..(MAX_OBJECTS - 1) |->
                    [id |-> i, active |-> FALSE, data |-> 0]],
     allocated_count |-> 0]

RECURSIVE r3_first_free(_, _)
r3_first_free(pool, i) ==
    IF i >= MAX_OBJECTS THEN MAX_OBJECTS
    ELSE IF ~pool.objects[i].active THEN i
    ELSE r3_first_free(pool, i + 1)

\* the loop run with i <= MAX_OBJECTS: the slot after the array is taken
r3_pool_acquire_PastEnd(pool) ==
    LET i == r3_first_free(pool, 0) IN
    [pool |-> [objects |-> [j \in (DOMAIN pool.objects) \cup {i} |->
                              IF j = i
                              THEN [id |-> i, active |-> TRUE, data |-> 0]
                              ELSE pool.objects[j]],
               allocated_count |-> pool.allocated_count + 1],
     ret |-> ObjAddr(i), log |-> ""]

r3_pool_acquire(pool) ==
    LET i == r3_first_free(pool, 0) IN
    IF i < MAX_OBJECTS
    THEN [pool |-> [pool EXCEPT
                      !.objects[i].active = TRUE,
                      !.allocated_count = pool.allocated_count + 1],
          ret |-> ObjAddr(i), log |-> ""]
    ELSE [pool |-> pool, ret |-> NULL,
          log |-> "WARNING: Object pool exhausted"]

\* the release without allocated_count--
r3_pool_release_KeepCount(pool, obj) ==
    IF obj = NULL
    THEN [pool |-> pool, log |-> "", accepted |-> FALSE]
    ELSE IF obj < ObjAddr(0) \/ obj >= ObjAddr(0) + MAX_OBJECTS
    THEN [pool |-> pool, log |-> "ERROR: Object not from pool", accepted |-> FALSE]
    ELSE IF ~pool.objects[obj - ObjAddr(0)].active
    THEN [pool |-> pool, log |-> "WARNING: Double free detected",
          accepted |-> FALSE]
    ELSE [pool |-> [pool EXCEPT
                      !.objects[obj - ObjAddr(0)].data = 0,
                      !.objects[obj - ObjAddr(0)].active = FALSE],
          log |-> "", accepted |-> TRUE]

r3_pool_release_NoActiveCheck(pool, obj) ==
    IF obj = NULL
    THEN [pool |-> pool, log |-> "", accepted |-> FALSE]
    ELSE IF obj < ObjAddr(0) \/ obj >= ObjAddr(0) + MAX_OBJECTS
    THEN [pool |-> pool, log |-> "ERROR: Object not from pool", accepted |-> FALSE]
    ELSE [pool |-> [pool EXCEPT
                      !.objects[obj - ObjAddr(0)].data = 0,
                      !.objects[obj - ObjAddr(0)].active = FALSE,
                      !.allocated_count = pool.allocated_count - 1],
          log |-> "", accepted |-> TRUE]

r3_pool_release(pool, obj) ==
    IF obj = NULL
    THEN [pool |-> pool, log |-> "", accepted |-> FALSE]
    ELSE IF obj < ObjAddr(0) \/ obj >= ObjAddr(0) + MAX_OBJECTS
    THEN [pool |-> pool, log |-> "ERROR: Object not from pool", accepted |-> FALSE]
    ELSE IF ~pool.objects[obj - ObjAddr(0)].active
    THEN [pool |-> pool, log |-> "WARNING: Double free detected",
          accepted |-> FALSE]
    ELSE [pool |-> [pool EXCEPT
                      !.objects[obj - ObjAddr(0)].data = 0,
                      !.objects[obj - ObjAddr(0)].active = FALSE,
                      !.allocated_count = pool.allocated_count - 1],
          log |-> "", accepted |-> TRUE]

\* ------------------------------------------------------ object pool actions
\* the pointers a caller hands to pool_release: NULL, one below the array,
\* every slot, one past the array
Pointers(size) == 0..(ObjAddr(0) + size)

MsPoolInit ==
    /\ psel = "ms"
    /\ ms_pool' = ms_pool_init
    /\ pop' = "init" /\ plog' = ""
    /\ held' = {}
    /\ UNCHANGED <<psel, r3_pool, parg, pret>>
    /\ UNCHANGED <<ringVars, hashVars, moreVars, lateVars>>

MsPoolAcquire ==
    /\ psel = "ms"
    /\ LET r == ms_pool_acquire(ms_pool) IN
         /\ ms_pool' = r.pool
         /\ pret' = r.ret
         /\ plog' = r.log
         /\ held' = IF r.ret # NULL THEN held \cup {r.ret - ObjAddr(0)} ELSE held
    /\ pop' = "acquire"
    /\ UNCHANGED <<psel, r3_pool, parg>>
    /\ UNCHANGED <<ringVars, hashVars, moreVars, lateVars>>

\* assert(obj != NULL) aborts the program for a NULL pointer
MsPoolRelease(obj) ==
    /\ psel = "ms"
    /\ obj # NULL
    /\ LET r == ms_pool_release(ms_pool, obj) IN
         /\ ms_pool' = r.pool
         /\ plog' = r.log
         /\ held' = IF r.accepted THEN held \ {obj - ObjAddr(0)} ELSE held
    /\ pop' = "release"
    /\ parg' = obj
    /\ UNCHANGED <<psel, r3_pool, pret>>
    /\ UNCHANGED <<ringVars, hashVars, moreVars, lateVars>>

\* snprintf(obj->data, sizeof(obj->data), ...) on an object the caller holds
MsPoolWrite(i) ==
    /\ psel = "ms"
    /\ ms_pool.objects[i].in_use
    /\ ms_pool' = [ms_pool EXCEPT !.objects[i].data = 1]
    /\ pop' = "write" /\ plog' = ""
    /\ UNCHANGED <<psel, r3_pool, parg, pret, held>>
    /\ UNCHANGED <<ringVars, hashVars, moreVars, lateVars>>

R3PoolInit ==
    /\ psel = "r3"
    /\ r3_pool' = r3_pool_init
    /\ pop' = "init" /\ plog' = ""
    /\ held' = {}
    /\ UNCHANGED <<psel, ms_pool, parg, pret>>
    /\ UNCHANGED <<ringVars, hashVars, moreVars, lateVars>>

R3PoolAcquire ==
    /\ psel = "r3"
    /\ LET r == r3_pool_acquire(r3_pool) IN
         /\ r3_pool' = r.pool
         /\ pret' = r.ret
         /\ plog' = r.log
         /\ held' = IF r.ret # NULL THEN held \cup {r.ret - ObjAddr(0)} ELSE held
    /\ pop' = "acquire"
    /\ UNCHANGED <<psel, ms_pool, parg>>
    /\ UNCHANGED <<ringVars, hashVars, moreVars, lateVars>>

R3PoolRelease(obj) ==
    /\ psel = "r3"
    /\ LET r == r3_pool_release(r3_pool, obj) IN
         /\ r3_pool' = r.pool
         /\ plog' = r.log
         /\ held' = IF r.accepted THEN held \ {obj - ObjAddr(0)} ELSE held
    /\ pop' = "release"
    /\ parg' = obj
    /\ UNCHANGED <<psel, ms_pool, pret>>
    /\ UNCHANGED <<ringVars, hashVars, moreVars, lateVars>>

R3PoolWrite(i) ==
    /\ psel = "r3"
    /\ r3_pool.objects[i].active
    /\ r3_pool' = [r3_pool EXCEPT !.objects[i].data = 1]
    /\ pop' = "write" /\ plog' = ""
    /\ UNCHANGED <<psel, ms_pool, parg, pret, held>>
    /\ UNCHANGED <<ringVars, hashVars, moreVars, lateVars>>

\* pool_example's pool after pool_init; g_object_pool as statically
\* initialised, before main calls pool_init
InitPoolVars ==
    /\ psel \in {"ms", "r3"}
    /\ ms_pool = ms_pool_init
    /\ r3_pool = r3_pool_static
    /\ pop = "init"
    /\ parg = NULL
    /\ pret = NULL
    /\ plog = ""
    /\ held = {}

NextPool ==
    \/ MsPoolInit
    \/ MsPoolAcquire
    \/ \E obj \in Pointers(POOL_SIZE) : MsPoolRelease(obj)
    \/ \E i \in 0..(POOL_SIZE - 1) : MsPoolWrite(i)
    \/ R3PoolInit
    \/ R3PoolAcquire
    \/ \E obj \in Pointers(MAX_OBJECTS) : R3PoolRelease(obj)
    \/ \E i \in 0..(MAX_OBJECTS - 1) : R3PoolWrite(i)

\* ============================================================== hash tables
\* ---- memory_safety.c: string keys
\* a uint32_t is kept as its two 16-bit halves, hi * 2^16 + lo
HALF == 65536

\* hash = ((hash << 5) + hash) + (uint32_t)c, modulo 2^32
hash_step(h, c) ==
    LET lo == h.lo * 33 + c
        hi == h.hi * 33 + (lo \div HALF) IN
    [hi |-> hi % HALF, lo |-> lo % HALF]

RECURSIVE hash_loop(_, _, _)
hash_loop(h, str, i) ==
    IF i > Len(str) THEN h
    ELSE hash_loop(hash_step(h, str[i]), str, i + 1)

hash_string(str) ==
    LET h == hash_loop([hi |-> 0, lo |-> 5381], str, 1) IN
    ((h.hi % MS_HASH_TABLE_SIZE) * (HALF % MS_HASH_TABLE_SIZE) + h.lo)
        % MS_HASH_TABLE_SIZE

\* memset(table, 0, sizeof(HashTable))
ms_hash_table_init ==
    [entries |-> [i \in 0..(MS_HASH_TABLE_SIZE - 1) |->
                    [key |-> <<>>, value |-> <<>>, occupied |-> FALSE]],
     count |-> 0]

\* the linear probing loop of hash_table_insert from probe on
RECURSIVE ms_insert_probe(_, _, _, _, _)
ms_insert_probe(table, key, value, index, probe) ==
    IF probe >= MS_HASH_TABLE_SIZE
    THEN [table |-> table, ret |-> FALSE, seen |-> <<>>]
    ELSE LET current == (index + probe) % MS_HASH_TABLE_SIZE IN
         IF ~table.entries[current].occupied
         THEN [table |-> [table EXCEPT
                            !.entries[current] =
                                [key |-> strncpy(key, KEY_SIZE - 1),
                                 value |-> strncpy(value, VALUE_SIZE - 1),
                                 occupied |-> TRUE],
                            !.count = table.count + 1],
               ret |-> TRUE,
               seen |-> <<current>>]
         ELSE IF table.entries[current].key = key
         THEN [table |-> [table EXCEPT
                            !.entries[current].value =
                                strncpy(value, VALUE_SIZE - 1)],
               ret |-> TRUE,
               seen |-> <<current>>]
         ELSE LET r == ms_insert_probe(table, key, value, index, probe + 1) IN
              [r EXCEPT !.seen = <<current>> \o r.seen]

\* a table that is full gives up the slot the key hashes to
ms_hash_table_insert_Evict(table, key, value) ==
    LET r == ms_insert_probe(table, key, value, hash_string(key), 0) IN
    IF r.ret THEN r
    ELSE [table |-> [table EXCEPT
                       !.entries[hash_string(key)] =
                           [key |-> strncpy(key, KEY_SIZE - 1),
                            value |-> strncpy(value, VALUE_SIZE - 1),
                            occupied |-> TRUE]],
          ret |-> TRUE,
          seen |-> r.seen]

ms_hash_table_insert(table, key, value) ==
    ms_insert_probe(table, key, value, hash_string(key), 0)

\* the probe counted but the slot index never moved from the hash
RECURSIVE ms_get_probe_Stuck(_, _, _, _, _, _)
ms_get_probe_Stuck(table, key, out_value, out_size, index, probe) ==
    IF probe >= MS_HASH_TABLE_SIZE
    THEN [out |-> out_value, ret |-> FALSE, seen |-> <<>>]
    ELSE LET current == index % MS_HASH_TABLE_SIZE IN
         IF ~table.entries[current].occupied
         THEN [out |-> out_value, ret |-> FALSE, seen |-> <<current>>]
         ELSE IF table.entries[current].key = key
         THEN [out |-> strncpy(table.entries[current].value, out_size - 1),
               ret |-> TRUE,
               seen |-> <<current>>]
         ELSE LET r == ms_get_probe_Stuck(table, key, out_value, out_size,
                                          index, probe + 1) IN
              [r EXCEPT !.seen = <<current>> \o r.seen]

\* the loop of hash_table_get from probe on; seen lists the slots it reads
RECURSIVE ms_get_probe(_, _, _, _, _, _)
ms_get_probe(table, key, out_value, out_size, index, probe) ==
    IF probe >= MS_HASH_TABLE_SIZE
    THEN [out |-> out_value, ret |-> FALSE, seen |-> <<>>]
    ELSE LET current == (index + probe) % MS_HASH_TABLE_SIZE IN
         IF ~table.entries[current].occupied
         THEN [out |-> out_value, ret |-> FALSE, seen |-> <<current>>]
         ELSE IF table.entries[current].key = key
         THEN [out |-> strncpy(table.entries[current].value, out_size - 1),
               ret |-> TRUE,
               seen |-> <<current>>]
         ELSE LET r == ms_get_probe(table, key, out_value, out_size,
                                    index, probe + 1) IN
              [r EXCEPT !.seen = <<current>> \o r.seen]

ms_hash_table_get(table, key, out_value, out_size) ==
    ms_get_probe(table, key, out_value, out_size, hash_string(key), 0)

\* ---- rule03_no_dynamic_memory.c: integer keys
\* bits of a size_t
SIZE_BITS == 64

RECURSIVE Pow2Mod(_, _)
Pow2Mod(n, m) == IF n = 0 THEN 1 % m ELSE (2 * Pow2Mod(n - 1, m)) % m

\* (size_t)key % HASH_TABLE_SIZE: a negative key converts to 2^64 + key
hash_function(key) ==
    IF key >= 0 THEN key % R3_HASH_TABLE_SIZE
    ELSE (Pow2Mod(SIZE_BITS, R3_HASH_TABLE_SIZE) + (key % R3_HASH_TABLE_SIZE))
             % R3_HASH_TABLE_SIZE

\* static HashTable g_hash_table = {0}; memset(&g_hash_table, 0, ...)
r3_hash_table_init ==
    [entries |-> [i \in 0..(R3_HASH_TABLE_SIZE - 1) |->
                    [key |-> 0, value |-> 0, occupied |-> FALSE]]]

RECURSIVE r3_insert_probe(_, _, _, _, _)
r3_insert_probe(table, key, value, index, attempts) ==
    IF attempts >= R3_HASH_TABLE_SIZE
    THEN [table |-> table, ret |-> FALSE, seen |-> <<>>]
    ELSE IF ~table.entries[index].occupied
    THEN [table |-> [table EXCEPT
                       !.entries[index] =
                           [key |-> key, value |-> value, occupied |-> TRUE]],
          ret |-> TRUE,
          seen |-> <<index>>]
    ELSE LET r == r3_insert_probe(table, key, value,
                                  (index + 1) % R3_HASH_TABLE_SIZE, attempts + 1) IN
         [r EXCEPT !.seen = <<index>> \o r.seen]

r3_hash_table_insert(table, key, value) ==
    r3_insert_probe(table, key, value, hash_function(key), 0)

RECURSIVE r3_lookup_probe(_, _, _, _, _)
r3_lookup_probe(table, key, out_value, index, attempts) ==
    IF attempts >= R3_HASH_TABLE_SIZE
    THEN [out |-> out_value, ret |-> FALSE, seen |-> <<>>]
    ELSE IF ~table.entries[index].occupied
    THEN [out |-> out_value, ret |-> FALSE, seen |-> <<index>>]
    ELSE IF table.entries[index].key = key
    THEN [out |-> table.entries[index].value, ret |-> TRUE, seen |-> <<index>>]
    ELSE LET r == r3_lookup_probe(table, key, out_value,
                                  (index + 1) % R3_HASH_TABLE_SIZE, attempts + 1) IN
         [r EXCEPT !.seen = <<index>> \o r.seen]

r3_hash_table_lookup(table, key, out_value) ==
    r3_lookup_probe(table, key, out_value, hash_function(key), 0)

\* ------------------------------------------------------- hash table actions
\* keys "a", "aa", ... up to MaxKeyLen characters, and "b"
MsKeys == {TextOf(n) : n \in 1..MaxKeyLen} \cup {<<98>>}
\* values "x" and MaxValLen characters 'a'
MsValues == {<<120>>, TextOf(MaxValLen)}
R3Keys == {-1, 1, 4}
R3Values == {1000, 2000}

MsHashInit ==
    /\ hsel = "ms"
    /\ ms_table' = ms_hash_table_init
    /\ hop' = "init" /\ hret' = TRUE
    /\ ok_keys' = {}
    /\ hseen' = <<>>
    /\ UNCHANGED <<hsel, r3_table, hkey, hval, hout>>
    /\ UNCHANGED <<ringVars, poolVars, moreVars, lateVars>>

MsHashInsert(key, value) ==
    /\ hsel = "ms"
    /\ LET r == ms_hash_table_insert(ms_table, key, value) IN
         /\ ms_table' = r.table
         /\ hret' = r.ret
         /\ ok_keys' = IF r.ret THEN ok_keys \cup {key} ELSE ok_keys
         /\ hseen' = r.seen
    /\ hop' = "insert" /\ hkey' = key /\ hval' = value
    /\ UNCHANGED <<hsel, r3_table, hout>>
    /\ UNCHANGED <<ringVars, poolVars, moreVars, lateVars>>

\* the caller's buffer is char value[VALUE_SIZE]
MsHashGet(key) ==
    /\ hsel = "ms"
    /\ LET r == ms_hash_table_get(ms_table, key, hout, VALUE_SIZE) IN
         /\ hout' = r.out
         /\ hret' = r.ret
         /\ hseen' = r.seen
    /\ hop' = "get" /\ hkey' = key
    /\ UNCHANGED <<hsel, ms_table, r3_table, hval, ok_keys>>
    /\ UNCHANGED <<ringVars, poolVars, moreVars, lateVars>>

R3HashInit ==
    /\ hsel = "r3"
    /\ r3_table' = r3_hash_table_init
    /\ hop' = "init" /\ hret' = TRUE
    /\ ok_keys' = {}
    /\ hseen' = <<>>
    /\ UNCHANGED <<hsel, ms_table, hkey, hval, hout>>
    /\ UNCHANGED <<ringVars, poolVars, moreVars, lateVars>>

R3HashInsert(key, value) ==
    /\ hsel = "r3"
    /\ LET r == r3_hash_table_insert(r3_table, key, value) IN
         /\ r3_table' = r.table
         /\ hret' = r.ret
         /\ ok_keys' = IF r.ret THEN ok_keys \cup {key} ELSE ok_keys
         /\ hseen' = r.seen
    /\ hop' = "insert" /\ hkey' = key /\ hval' = value
    /\ UNCHANGED <<hsel, ms_table, hout>>
    /\ UNCHANGED <<ringVars, poolVars, moreVars, lateVars>>

R3HashLookup(key) ==
    /\ hsel = "r3"
    /\ LET r == r3_hash_table_lookup(r3_table, key, hout) IN
         /\ hout' = r.out
         /\ hret' = r.ret
         /\ hseen' = r.seen
    /\ hop' = "get" /\ hkey' = key
    /\ UNCHANGED <<hsel, ms_table, r3_table, hval, ok_keys>>
    /\ UNCHANGED <<ringVars, poolVars, moreVars, lateVars>>

\* both tables as initialised, before any insert
InitHashVars ==
    /\ hsel \in {"ms", "r3"}
    /\ ms_table = ms_hash_table_init
    /\ r3_table = r3_hash_table_init
    /\ hop = "init"
    /\ hkey = IF hsel = "ms" THEN <<>> ELSE 0
    /\ hval = IF hsel = "ms" THEN <<>> ELSE 0
    /\ hret = TRUE
    /\ hout = IF hsel = "ms" THEN <<>> ELSE 0
    /\ ok_keys = {}
    /\ hseen = <<>>

NextHash ==
    \/ MsHashInit
    \/ \E k \in MsKeys, v \in MsValues : MsHashInsert(k, v)
    \/ \E k \in MsKeys : MsHashGet(k)
    \/ R3HashInit
    \/ \E k \in R3Keys, v \in R3Values : R3HashInsert(k, v)
    \/ \E k \in R3Keys : R3HashLookup(k)

\* =================================================================== arena
\* ---- memory_safety.c
\* size_t arithmetic wraps at 2^SIZE_T_BITS
SizeMod == 2 ^ SIZE_T_BITS

\* arena_create(capacity), both malloc calls succeeding
arena_create(capacity) == [capacity |-> capacity, used |-> 0]

\* size = (size + 7) & ~7 on a size_t
AlignSize(size) ==
    LET s == (size + 7) % SizeMod IN s - (s % 8)

arena_alloc_CheckUnrounded(a, size) ==
    IF size = 0 THEN [arena |-> a, ret |-> NULL]
    ELSE IF (a.used + size) % SizeMod > a.capacity
    THEN [arena |-> a, ret |-> NULL]
    ELSE [arena |-> [a EXCEPT !.used = (a.used + AlignSize(size)) % SizeMod],
          ret |-> ARENA_BUF + a.used]

arena_alloc_NoAlign(a, size) ==
    IF size = 0 THEN [arena |-> a, ret |-> NULL]
    ELSE IF (a.used + size) % SizeMod > a.capacity
    THEN [arena |-> a, ret |-> NULL]
    ELSE [arena |-> [a EXCEPT !.used = (a.used + size) % SizeMod],
          ret |-> ARENA_BUF + a.used]

arena_alloc(a, size) ==
    IF size = 0 THEN [arena |-> a, ret |-> NULL]
    ELSE IF (a.used + AlignSize(size)) % SizeMod > a.capacity
    THEN [arena |-> a, ret |-> NULL]
    ELSE [arena |-> [a EXCEPT !.used = (a.used + AlignSize(size)) % SizeMod],
          ret |-> ARENA_BUF + a.used]

arena_reset_KeepUsed(a) == a

arena_reset(a) == [a EXCEPT !.used = 0]

\* ------------------------------------------------------------ arena actions
\* capacities of the arenas created
Capacities == {ARENA_SIZE - 4, ARENA_SIZE}
\* sizes asked for: none, small ones around the alignment, and the largest
\* a size_t holds
AllocSizes == {0, 1, 8, 9, 17} \cup {SizeMod - 8, SizeMod - 7, SizeMod - 1}

ArenaAlloc(size) ==
    /\ Len(since) < MaxAllocs
    /\ LET r == arena_alloc(arena, size) IN
         /\ arena' = r.arena
         /\ aret' = r.ret
    /\ aop' = "alloc"
    /\ asize' = size
    /\ since' = Append(since, size)
    /\ UNCHANGED was_reset
    /\ UNCHANGED <<ringVars, poolVars, hashVars, listVars, retryVars, cleanupVars, lateVars>>

ArenaReset ==
    /\ arena' = arena_reset(arena)
    /\ aop' = "reset"
    /\ since' = <<>>
    /\ was_reset' = TRUE
    /\ UNCHANGED <<asize, aret>>
    /\ UNCHANGED <<ringVars, poolVars, hashVars, listVars, retryVars, cleanupVars, lateVars>>

\* the arena as arena_create returns it
InitArenaVars ==
    /\ arena \in {arena_create(c) : c \in Capacities}
    /\ aop = "create"
    /\ asize = 0
    /\ aret = NULL
    /\ since = <<>>
    /\ was_reset = FALSE

NextArena ==
    \/ \E size \in AllocSizes : ArenaAlloc(size)
    \/ ArenaReset

\* ============================================================== StaticList
\* ---- rule03_no_dynamic_memory.c
\* static StaticList g_list = {.head = -1, .count = 0};
g_list_static ==
    [nodes |-> [i \in 0..(MAX_NODES - 1) |-> [value |-> 0, next |-> 0, in_use |-> FALSE]],
     head |-> -1,
     count |-> 0]

list_init(list) ==
    [nodes |-> [i \in 0..(MAX_NODES - 1) |->
                  [list.nodes[i] EXCEPT !.in_use = FALSE, !.next = -1]],
     head |-> -1,
     count |-> 0]

\* the free_idx list_add's scan ends with
list_free_idx(list) ==
    LET free == {i \in 0..(MAX_NODES - 1) : ~list.nodes[i].in_use} IN
      IF free = {} THEN -1
      ELSE CHOOSE i \in free : \A j \in free : i <= j

\* the new node linked to itself instead of to the old head
list_add_SelfLink(list, value) ==
    IF list.count >= MAX_NODES THEN [list |-> list, ret |-> FALSE]
    ELSE LET free_idx == list_free_idx(list) IN
      IF free_idx = -1 THEN [list |-> list, ret |-> FALSE]
      ELSE [list |-> [nodes |-> [list.nodes EXCEPT ![free_idx] =
                                   [value |-> value, in_use |-> TRUE, next |-> free_idx]],
                      head |-> free_idx,
                      count |-> list.count + 1],
            ret |-> TRUE]

list_add_NoLink(list, value) ==
    IF list.count >= MAX_NODES THEN [list |-> list, ret |-> FALSE]
    ELSE LET free_idx == list_free_idx(list) IN
      IF free_idx = -1 THEN [list |-> list, ret |-> FALSE]
      ELSE [list |-> [nodes |-> [list.nodes EXCEPT ![free_idx] =
                                   [value |-> value, in_use |-> TRUE, next |-> -1]],
                      head |-> free_idx,
                      count |-> list.count + 1],
            ret |-> TRUE]

list_add(list, value) ==
    IF list.count >= MAX_NODES THEN [list |-> list, ret |-> FALSE]
    ELSE LET free_idx == list_free_idx(list) IN
      IF free_idx = -1 THEN [list |-> list, ret |-> FALSE]
      ELSE [list |-> [nodes |-> [list.nodes EXCEPT ![free_idx] =
                                   [value |-> value, in_use |-> TRUE, next |-> list.head]],
                      head |-> free_idx,
                      count |-> list.count + 1],
            ret |-> TRUE]

list_print_cond_NoBound(cur, iter) == cur # -1

\* while (current != -1 && iterations < MAX_NODES)
list_print_cond(cur, iter) == cur # -1 /\ iter < MAX_NODES

\* ------------------------------------------------------- StaticList actions
ListValues == {10, 20}

ListInit ==
    /\ lpc = "idle"
    /\ g_list' = list_init(g_list)
    /\ lop' = "init"
    /\ added' = <<>>
    /\ UNCHANGED <<lret, lpc, lcurrent, iterations, printed, visited>>
    /\ UNCHANGED <<ringVars, poolVars, hashVars, arenaVars, retryVars, cleanupVars, lateVars>>

ListAdd(value) ==
    /\ lpc = "idle"
    /\ LET r == list_add(g_list, value) IN
         /\ g_list' = r.list
         /\ lret' = r.ret
         /\ added' = IF r.ret THEN Append(added, value) ELSE added
    /\ lop' = "add"
    /\ UNCHANGED <<lpc, lcurrent, iterations, printed, visited>>
    /\ UNCHANGED <<ringVars, poolVars, hashVars, arenaVars, retryVars, cleanupVars, lateVars>>

\* list_print up to its while loop
ListPrintBegin ==
    /\ lpc = "idle"
    /\ lpc' = "loop"
    /\ lop' = "print"
    /\ lcurrent' = g_list.head
    /\ iterations' = 0
    /\ printed' = <<>>
    /\ visited' = <<>>
    /\ UNCHANGED <<g_list, lret, added>>
    /\ UNCHANGED <<ringVars, poolVars, hashVars, arenaVars, retryVars, cleanupVars, lateVars>>

\* one turn of the while loop of list_print
ListPrintStep ==
    /\ lpc = "loop"
    /\ list_print_cond(lcurrent, iterations)
    /\ printed' = Append(printed, g_list.nodes[lcurrent].value)
    /\ visited' = Append(visited, lcurrent)
    /\ lcurrent' = g_list.nodes[lcurrent].next
    /\ iterations' = iterations + 1
    /\ UNCHANGED <<g_list, lop, lret, lpc, added>>
    /\ UNCHANGED <<ringVars, poolVars, hashVars, arenaVars, retryVars, cleanupVars, lateVars>>

\* the while loop of list_print left, list_print returns
ListPrintEnd ==
    /\ lpc = "loop"
    /\ ~list_print_cond(lcurrent, iterations)
    /\ lpc' = "idle"
    /\ UNCHANGED <<g_list, lop, lret, lcurrent, iterations, printed, visited, added>>
    /\ UNCHANGED <<ringVars, poolVars, hashVars, arenaVars, retryVars, cleanupVars, lateVars>>

\* what the calls left of the list does not matter to the state before one
ListCallIdle ==
    /\ lop = "static"
    /\ lret = FALSE
    /\ lpc = "idle"
    /\ lcurrent = -1
    /\ iterations = 0
    /\ printed = <<>>
    /\ visited = <<>>
    /\ added = <<>>

\* the program's start: g_list as its initializer leaves it
InitListVars ==
    /\ g_list = g_list_static
    /\ ListCallIdle

NextList ==
    \/ ListInit
    \/ \E value \in ListValues : ListAdd(value)
    \/ ListPrintBegin
    \/ ListPrintStep
    \/ ListPrintEnd

\* a g_list whose head and next indices are any indices in range, the
\* chain of list_add corrupted
CorruptLists ==
    {[nodes |-> [i \in 0..(MAX_NODES - 1) |->
                   [value |-> 10 * (i + 1), next |-> nx[i], in_use |-> TRUE]],
      head |-> h,
      count |-> MAX_NODES] :
        nx \in [0..(MAX_NODES - 1) -> -1..(MAX_NODES - 1)], h \in -1..(MAX_NODES - 1)}

InitTraverseVars ==
    /\ g_list \in CorruptLists
    /\ ListCallIdle

\* list_print alone, on the list it is given
NextTraverse ==
    \/ ListPrintBegin
    \/ ListPrintStep
    \/ ListPrintEnd

\* =================================================== good_retry_with_limit
\* ---- rule02_loop_bounds.c
retry_cond_IgnoreSuccess(attempts, success) == attempts < MAX_RETRIES

\* while (attempts < MAX_RETRIES && !success)
retry_cond(attempts, success) == attempts < MAX_RETRIES /\ ~success

\* success = (rand() % 3 == 0) for the value rand() returned
retry_operation(r) == r % 3 = 0

RandValues == 0..MaxRand

\* one turn of the while loop, rand() returning r
RetryAttempt(r) ==
    /\ tpc = "loop"
    /\ retry_cond(retries, succeeded)
    /\ succeeded' = retry_operation(r)
    /\ retries' = retries + 1
    /\ draws' = Append(draws, r)
    /\ UNCHANGED <<tpc, tret>>
    /\ UNCHANGED <<ringVars, poolVars, hashVars, arenaVars, listVars, cleanupVars, lateVars>>

\* the while loop left: return success
RetryReturn ==
    /\ tpc = "loop"
    /\ ~retry_cond(retries, succeeded)
    /\ tpc' = "done"
    /\ tret' = succeeded
    /\ UNCHANGED <<retries, succeeded, draws>>
    /\ UNCHANGED <<ringVars, poolVars, hashVars, arenaVars, listVars, cleanupVars, lateVars>>

\* good_retry_with_limit entered: int attempts = 0; bool success = false
InitRetryVars ==
    /\ retries = 0
    /\ succeeded = FALSE
    /\ tpc = "loop"
    /\ tret = FALSE
    /\ draws = <<>>

NextRetry ==
    \/ \E r \in RandValues : RetryAttempt(r)
    \/ RetryReturn

\* ======================================================== cleanup patterns
\* a call of the C library made by the function
Ev(op, h, n) == [op |-> op, h |-> h, n |-> n]

\* ---- memory_safety.c
\* cleanup: of good_resource_management
good_resource_management_cleanup(ev, file, buffer, fd, result) ==
    LET e1 == IF buffer # NULL THEN Append(ev, Ev("free", buffer, 0)) ELSE ev
        e2 == IF file # NULL THEN Append(e1, Ev("fclose", file, 0)) ELSE e1 IN
    [events |-> e2, ret |-> result]

\* fopen returning file, malloc buffer and fread bytes_read
good_resource_management(file, buffer, bytes_read) ==
    LET e1 == <<Ev("fopen", file, 0)>> IN
    IF file = NULL
    THEN good_resource_management_cleanup(e1, file, NULL, -1, -1)
    ELSE LET e2 == Append(e1, Ev("malloc", buffer, 0)) IN
      IF buffer = NULL
      THEN good_resource_management_cleanup(e2, file, buffer, -1, -1)
      ELSE LET fd == 1
               e3 == Append(e2, Ev("fread", file, bytes_read)) IN
        IF fd < 0
        THEN good_resource_management_cleanup(e2, file, buffer, fd, -1)
        ELSE good_resource_management_cleanup(
                 e3, file, buffer, fd, IF bytes_read > 0 THEN 0 ELSE -1)

\* ---- exercises/ex10_static_analysis.c
\* cleanup: of good_cleanup_pattern
good_cleanup_pattern_cleanup(ev, f1, f2, buffer, success) ==
    LET e1 == IF buffer # NULL THEN Append(ev, Ev("free", buffer, 0)) ELSE ev
        e2 == IF f2 # NULL THEN Append(e1, Ev("fclose", f2, 0)) ELSE e1
        e3 == IF f1 # NULL THEN Append(e2, Ev("fclose", f1, 0)) ELSE e2 IN
    [events |-> e3, ret |-> success]

\* the two fopen returning f1 and f2, malloc buffer
good_cleanup_pattern(f1, f2, buffer) ==
    LET e1 == <<Ev("fopen", f1, 0)>> IN
    IF f1 = NULL
    THEN good_cleanup_pattern_cleanup(e1, f1, NULL, NULL, FALSE)
    ELSE LET e2 == Append(e1, Ev("fopen", f2, 0)) IN
      IF f2 = NULL
      THEN good_cleanup_pattern_cleanup(e2, f1, f2, NULL, FALSE)
      ELSE LET e3 == Append(e2, Ev("malloc", buffer, 0)) IN
        IF buffer = NULL
        THEN good_cleanup_pattern_cleanup(e3, f1, f2, buffer, FALSE)
        ELSE good_cleanup_pattern_cleanup(e3, f1, f2, buffer, TRUE)

\* ---- nasa_rules.c
STATUS_OK == 0
STATUS_FILE_ERROR == 1
STATUS_READ_ERROR == 2

good_checked_returns_LeakOnError(file, bytes_read, error, close_result) ==
    LET e1 == <<Ev("fopen", file, 0)>> IN
    IF file = NULL
    THEN [events |-> e1, ret |-> STATUS_FILE_ERROR]
    ELSE LET e2 == Append(e1, Ev("fread", file, bytes_read))
             e3 == IF bytes_read = 0 THEN Append(e2, Ev("ferror", file, error))
                   ELSE e2 IN
      IF bytes_read = 0 /\ error # 0
      THEN [events |-> e3, ret |-> STATUS_READ_ERROR]
      ELSE [events |-> Append(e3, Ev("fclose", file, close_result)),
            ret |-> STATUS_OK]

\* fopen returning file, fread bytes_read, ferror error and fclose
\* close_result
good_checked_returns(file, bytes_read, error, close_result) ==
    LET e1 == <<Ev("fopen", file, 0)>> IN
    IF file = NULL
    THEN [events |-> e1, ret |-> STATUS_FILE_ERROR]
    ELSE LET e2 == Append(e1, Ev("fread", file, bytes_read))
             e3 == IF bytes_read = 0 THEN Append(e2, Ev("ferror", file, error))
                   ELSE e2 IN
      IF bytes_read = 0 /\ error # 0
      THEN [events |-> Append(e3, Ev("fclose", file, 0)),
            ret |-> STATUS_READ_ERROR]
      ELSE [events |-> Append(e3, Ev("fclose", file, close_result)),
            ret |-> STATUS_OK]

\* ------------------------------------------------ cleanup pattern actions
\* what fopen and malloc return: NULL, or the address of a new object
Handles == 1..MaxHandles
MaybeHandles == {NULL} \cup Handles
ReadCounts == 0..MaxRead
\* ferror: zero or not
ErrorFlags == {0, 1}
\* fclose: 0 or EOF
CloseResults == {0, -1}

\* objects alive at one time have addresses that differ
Distinct(a, b) == a = NULL \/ b = NULL \/ a # b

GoodResourceManagement(file, buffer, bytes_read) ==
    /\ Distinct(file, buffer)
    /\ LET r == good_resource_management(file, buffer, bytes_read) IN
         /\ cevents' = r.events
         /\ cret' = r.ret
    /\ cfn' = "grm"
    /\ UNCHANGED <<ringVars, poolVars, hashVars, arenaVars, listVars, retryVars, lateVars>>

GoodCleanupPattern(f1, f2, buffer) ==
    /\ Distinct(f1, f2) /\ Distinct(f1, buffer) /\ Distinct(f2, buffer)
    /\ LET r == good_cleanup_pattern(f1, f2, buffer) IN
         /\ cevents' = r.events
         /\ cret' = r.ret
    /\ cfn' = "gcp"
    /\ UNCHANGED <<ringVars, poolVars, hashVars, arenaVars, listVars, retryVars, lateVars>>

GoodCheckedReturns(file, bytes_read, error, close_result) ==
    /\ LET r == good_checked_returns(file, bytes_read, error, close_result) IN
         /\ cevents' = r.events
         /\ cret' = r.ret
    /\ cfn' = "gcr"
    /\ UNCHANGED <<ringVars, poolVars, hashVars, arenaVars, listVars, retryVars, lateVars>>

\* before any of the three is called
InitCleanupVars ==
    /\ cfn = "none"
    /\ cevents = <<>>
    /\ cret = 0

NextCleanup ==
    \/ \E file, buffer \in MaybeHandles, bytes_read \in ReadCounts :
           GoodResourceManagement(file, buffer, bytes_read)
    \/ \E f1, f2, buffer \in MaybeHandles : GoodCleanupPattern(f1, f2, buffer)
    \/ \E file \in MaybeHandles, bytes_read \in ReadCounts,
          error \in ErrorFlags, close_result \in CloseResults :
           GoodCheckedReturns(file, bytes_read, error, close_result)

\* ============================================================= sensor pool
\* ---- exercises/ex03_static_memory.c
\* a StaticSensor* is the address of a slot; slot i is at SensorAddr(i)
SensorAddr(i) == i + 1
SensorIndex(sensor) == sensor - 1

ZeroSensor ==
    [name |-> <<>>,
     data |-> [j \in 0..(MAX_DATA_POINTS - 1) |-> 0],
     data_count |-> 0,
     active |-> FALSE]

\* static SensorPool g_sensor_pool = {0};
g_sensor_pool_static ==
    [sensors |-> [i \in 0..(MAX_SENSORS - 1) |-> ZeroSensor],
     allocated_count |-> 0]

\* pool_init: every sensor cleared, allocated_count left at MAX_SENSORS
sensor_pool_init ==
    [sensors |-> [i \in 0..(MAX_SENSORS - 1) |-> ZeroSensor],
     allocated_count |-> MAX_SENSORS]

\* the first i < allocated_count that is not active, -1 if there is none
sensor_first_inactive(pool) ==
    LET free == {i \in 0..(pool.allocated_count - 1) : ~pool.sensors[i].active} IN
      IF free = {} THEN -1
      ELSE CHOOSE i \in free : \A j \in free : i <= j

\* good_create_sensor for a name shorter than MAX_NAME_LENGTH
good_create_sensor(pool, name) ==
    LET i == sensor_first_inactive(pool) IN
      IF i = -1 THEN [pool |-> pool, ret |-> NULL]
      ELSE [pool |-> [pool EXCEPT !.sensors[i].name = name,
                                  !.sensors[i].active = TRUE],
            ret |-> SensorAddr(i)]

\* the i its loop stops at: the first slot that is not active (the read of
\* sensors[MAX_SENSORS].active when all are active does not change it)
RECURSIVE sensor_active_prefix(_, _)
sensor_active_prefix(pool, i) ==
    IF i < MAX_SENSORS /\ pool.sensors[i].active
    THEN sensor_active_prefix(pool, i + 1)
    ELSE i

\* good_destroy_sensor: clears every slot below the first that is not
\* active; sensor is not read
good_destroy_sensor(pool, sensor) ==
    LET n == sensor_active_prefix(pool, 0) IN
    [pool EXCEPT !.sensors =
        [i \in 0..(MAX_SENSORS - 1) |->
           IF i < n THEN ZeroSensor ELSE pool.sensors[i]]]

\* good_add_data_point stores at data[data_count].  A store to
\* data[MAX_DATA_POINTS] is past the array, where data_count lies:
\* data_count ends as the count read before the store plus one, or as the
\* value stored plus one.
good_add_data_point(pool, sensor, value) ==
    LET k == SensorIndex(sensor)
        s == pool.sensors[k]
        i == s.data_count IN
    IF ~s.active THEN {[pool |-> pool, ret |-> FALSE, at |-> -1]}
    ELSE IF i < MAX_DATA_POINTS
    THEN {[pool |-> [pool EXCEPT !.sensors[k].data[i] = value,
                                 !.sensors[k].data_count = i + 1],
           ret |-> TRUE, at |-> i]}
    ELSE {[pool |-> [pool EXCEPT !.sensors[k].data_count = c],
           ret |-> TRUE, at |-> i] : c \in {i + 1, value + 1}}

\* ----------------------------------------------------- sensor pool actions
SensorNames == {<<97>>, <<98>>}
SensorValues == {100, 101}
SensorPointers == {SensorAddr(i) : i \in 0..(MAX_SENSORS - 1)}

SensorPoolInit ==
    /\ g_sensor_pool' = sensor_pool_init
    /\ sop' = "init"
    /\ UNCHANGED <<sarg, sval, sptr, sret, soob>>
    /\ UNCHANGED <<earlyVars, appVars, sortVars>>

GoodCreateSensor(name) ==
    /\ LET r == good_create_sensor(g_sensor_pool, name) IN
         /\ g_sensor_pool' = r.pool
         /\ sptr' = r.ret
    /\ sop' = "create"
    /\ UNCHANGED <<sarg, sval, sret, soob>>
    /\ UNCHANGED <<earlyVars, appVars, sortVars>>

GoodDestroySensor(sensor) ==
    /\ g_sensor_pool' = good_destroy_sensor(g_sensor_pool, sensor)
    /\ sop' = "destroy"
    /\ sarg' = sensor
    /\ UNCHANGED <<sval, sptr, sret, soob>>
    /\ UNCHANGED <<earlyVars, appVars, sortVars>>

\* called while data_count is at most MAX_DATA_POINTS
GoodAddDataPoint(sensor, value) ==
    /\ g_sensor_pool.sensors[SensorIndex(sensor)].data_count <= MAX_DATA_POINTS
    /\ \E r \in good_add_data_point(g_sensor_pool, sensor, value) :
         /\ g_sensor_pool' = r.pool
         /\ sret' = r.ret
         /\ soob' = r.at
    /\ sop' = "add"
    /\ sarg' = sensor
    /\ sval' = value
    /\ UNCHANGED <<sptr>>
    /\ UNCHANGED <<earlyVars, appVars, sortVars>>

InitSensorVars ==
    /\ g_sensor_pool = g_sensor_pool_static
    /\ sop = "static"
    /\ sarg = NULL
    /\ sval = 0
    /\ sptr = NULL
    /\ sret = FALSE
    /\ soob = -1

NextSensor ==
    \/ SensorPoolInit
    \/ \E name \in SensorNames : GoodCreateSensor(name)
    \/ \E sensor \in SensorPointers : GoodDestroySensor(sensor)
    \/ \E sensor \in SensorPointers, value \in SensorValues :
           GoodAddDataPoint(sensor, value)

\* ============================================================= application
\* ---- layered-arch/layered_arch.c
\* temperatures are in tenths of a degree: raw / 10.0f is raw tenths
\* Application app = {0};
app_zero ==
    [temp_sensor |-> [spi |-> FALSE, cs_pin |-> 0, initialized |-> FALSE],
     status_led |-> [gpio |-> FALSE, pin |-> 0, state |-> FALSE],
     logger |-> [uart |-> FALSE, initialized |-> FALSE],
     monitor |-> [current_temp |-> 0, min_temp |-> 0, max_temp |-> 0,
                  warning_threshold |-> 0, critical_threshold |-> 0,
                  status |-> "NORMAL", reading_count |-> 0],
     running |-> FALSE]

\* spi->init() returning spi_ok
temp_sensor_init(driver, spi_ok) ==
    LET d == [driver EXCEPT !.spi = TRUE, !.cs_pin = 10] IN
    IF ~spi_ok
    THEN [drv |-> d, ret |-> FALSE, calls |-> <<"spi_init_fail">>]
    ELSE [drv |-> [d EXCEPT !.initialized = TRUE], ret |-> TRUE,
          calls |-> <<"spi_init_ok">>]

\* spi->transfer() returning xfer_ok and the register value raw
temp_sensor_read(driver, xfer_ok, raw) ==
    IF ~driver.initialized THEN [ret |-> FALSE, temperature |-> 0, calls |-> <<>>]
    ELSE IF ~xfer_ok
    THEN [ret |-> FALSE, temperature |-> 0, calls |-> <<"spi_transfer_fail">>]
    ELSE [ret |-> TRUE, temperature |-> raw, calls |-> <<"spi_transfer_ok">>]

temp_sensor_deinit_Unguarded(driver) ==
    [drv |-> [driver EXCEPT !.initialized = FALSE], calls |-> <<"spi_deinit">>]

temp_sensor_deinit(driver) ==
    IF driver.initialized
    THEN [drv |-> [driver EXCEPT !.initialized = FALSE], calls |-> <<"spi_deinit">>]
    ELSE [drv |-> driver, calls |-> <<>>]

led_init(led) ==
    [drv |-> [gpio |-> TRUE, pin |-> 5, state |-> FALSE], calls |-> <<"gpio_set">>]

\* led_on / led_off: led->gpio->set_pin with gpio NULL ends the program
led_set(led, state) ==
    IF ~led.gpio THEN [drv |-> led, calls |-> <<>>, crash |-> TRUE]
    ELSE [drv |-> [led EXCEPT !.state = state], calls |-> <<"gpio_set">>,
          crash |-> FALSE]

led_toggle(led) == led_set(led, ~led.state)

\* uart->init(115200) returning uart_ok
logger_init(logger, uart_ok) ==
    LET l == [logger EXCEPT !.uart = TRUE] IN
    IF ~uart_ok
    THEN [drv |-> l, ret |-> FALSE, calls |-> <<"uart_init_fail">>]
    ELSE [drv |-> [l EXCEPT !.initialized = TRUE], ret |-> TRUE,
          calls |-> <<"uart_init_ok">>]

\* the HAL calls of logger_log
logger_log(logger) == IF logger.initialized THEN <<"uart_write">> ELSE <<>>

temp_monitor_init ==
    [current_temp |-> 0, min_temp |-> 10000, max_temp |-> -10000,
     warning_threshold |-> 300, critical_threshold |-> 400,
     status |-> "NORMAL", reading_count |-> 0]

temp_monitor_process(service, temperature) ==
    [service EXCEPT
       !.current_temp = temperature,
       !.reading_count = service.reading_count + 1,
       !.min_temp = IF temperature < service.min_temp THEN temperature
                    ELSE service.min_temp,
       !.max_temp = IF temperature > service.max_temp THEN temperature
                    ELSE service.max_temp,
       !.status = IF temperature >= service.critical_threshold THEN "CRITICAL"
                  ELSE IF temperature >= service.warning_threshold THEN "WARNING"
                  ELSE "NORMAL"]

app_init(a, spi_ok, uart_ok) ==
    LET t == temp_sensor_init(a.temp_sensor, spi_ok) IN
    IF ~t.ret
    THEN [app |-> [a EXCEPT !.temp_sensor = t.drv], ret |-> FALSE,
          calls |-> t.calls, crash |-> FALSE]
    ELSE LET l == led_init(a.status_led)
             g == logger_init(a.logger, uart_ok) IN
      IF ~g.ret
      THEN [app |-> [a EXCEPT !.temp_sensor = t.drv, !.status_led = l.drv,
                              !.logger = g.drv],
            ret |-> FALSE, calls |-> t.calls \o l.calls \o g.calls,
            crash |-> FALSE]
      ELSE [app |-> [a EXCEPT !.temp_sensor = t.drv, !.status_led = l.drv,
                              !.logger = g.drv, !.monitor = temp_monitor_init,
                              !.running = TRUE],
            ret |-> TRUE,
            calls |-> t.calls \o l.calls \o g.calls \o logger_log(g.drv),
            crash |-> FALSE]

app_run_cycle_NoRunningCheck(a, xfer_ok, raw) ==
    LET t == temp_sensor_read(a.temp_sensor, xfer_ok, raw) IN
    IF ~t.ret
    THEN LET l == led_set(a.status_led, TRUE) IN
         [app |-> [a EXCEPT !.status_led = l.drv],
          calls |-> t.calls \o logger_log(a.logger) \o l.calls,
          crash |-> l.crash]
    ELSE LET m == temp_monitor_process(a.monitor, t.temperature)
             l == IF m.status = "NORMAL" THEN led_set(a.status_led, FALSE)
                  ELSE IF m.status = "WARNING" THEN led_toggle(a.status_led)
                  ELSE led_set(a.status_led, TRUE) IN
         [app |-> [a EXCEPT !.monitor = m, !.status_led = l.drv],
          calls |-> t.calls \o l.calls
                      \o (IF l.crash THEN <<>> ELSE logger_log(a.logger)),
          crash |-> l.crash]

app_run_cycle(a, xfer_ok, raw) ==
    IF ~a.running THEN [app |-> a, calls |-> <<>>, crash |-> FALSE]
    ELSE LET t == temp_sensor_read(a.temp_sensor, xfer_ok, raw) IN
      IF ~t.ret
      THEN LET l == led_set(a.status_led, TRUE) IN
           [app |-> [a EXCEPT !.status_led = l.drv],
            calls |-> t.calls \o logger_log(a.logger) \o l.calls,
            crash |-> l.crash]
      ELSE LET m == temp_monitor_process(a.monitor, t.temperature)
               l == IF m.status = "NORMAL" THEN led_set(a.status_led, FALSE)
                    ELSE IF m.status = "WARNING" THEN led_toggle(a.status_led)
                    ELSE led_set(a.status_led, TRUE) IN
           [app |-> [a EXCEPT !.monitor = m, !.status_led = l.drv],
            calls |-> t.calls \o l.calls
                        \o (IF l.crash THEN <<>> ELSE logger_log(a.logger)),
            crash |-> l.crash]

app_shutdown(a) ==
    LET l == led_set(a.status_led, FALSE) IN
    IF l.crash
    THEN [app |-> a, calls |-> logger_log(a.logger), crash |-> TRUE]
    ELSE LET t == temp_sensor_deinit(a.temp_sensor) IN
         [app |-> [a EXCEPT !.status_led = l.drv, !.temp_sensor = t.drv,
                            !.running = FALSE],
          calls |-> logger_log(a.logger) \o l.calls \o t.calls,
          crash |-> FALSE]

\* ----------------------------------------------------- application actions
\* register values read: below the warning threshold, between the two
\* thresholds, and the mock's 0x1900
RawValues == {250, 350, 6400}

AppInit(spi_ok, uart_ok) ==
    /\ ~crashed /\ ncalls < MaxAppCalls
    /\ LET r == app_init(app, spi_ok, uart_ok) IN
         /\ app' = r.app
         /\ apret' = r.ret
         /\ hal' = hal \o r.calls
         /\ crashed' = r.crash
    /\ apcall' = "init"
    /\ shut' = FALSE
    /\ ncalls' = ncalls + 1
    /\ UNCHANGED <<earlyVars, sensorVars, sortVars>>

AppRunCycle(xfer_ok, raw) ==
    /\ ~crashed /\ ncalls < MaxAppCalls
    /\ LET r == app_run_cycle(app, xfer_ok, raw) IN
         /\ app' = r.app
         /\ hal' = hal \o r.calls
         /\ crashed' = r.crash
    /\ apcall' = "run"
    /\ ncalls' = ncalls + 1
    /\ UNCHANGED <<apret, shut>>
    /\ UNCHANGED <<earlyVars, sensorVars, sortVars>>

AppShutdown ==
    /\ ~crashed /\ ncalls < MaxAppCalls
    /\ LET r == app_shutdown(app) IN
         /\ app' = r.app
         /\ hal' = hal \o r.calls
         /\ crashed' = r.crash
    /\ apcall' = "shutdown"
    /\ shut' = TRUE
    /\ ncalls' = ncalls + 1
    /\ UNCHANGED <<apret>>
    /\ UNCHANGED <<earlyVars, sensorVars, sortVars>>

InitAppVars ==
    /\ app = app_zero
    /\ apcall = "none"
    /\ apret = FALSE
    /\ hal = <<>>
    /\ shut = FALSE
    /\ crashed = FALSE
    /\ ncalls = 0

NextApp ==
    \/ \E spi_ok, uart_ok \in BOOLEAN : AppInit(spi_ok, uart_ok)
    \/ \E xfer_ok \in BOOLEAN, raw \in RawValues : AppRunCycle(xfer_ok, raw)
    \/ AppShutdown

\* =============================================================== sort_array
\* nasa_rules.c:201-212. size_t is SIZE_T_BITS wide; the array has exactly
\* `size` elements, so data[k] with k outside 0..size-1 is outside the object.
SortValues == {1, 2, 3}

\* for (size_t i = 0; i < size - 1; i++)
sort_outer_cond(size, i) == i < (size + SizeMod - 1) % SizeMod

\* for (size_t j = 0; j < size - i - 1; j++)
sort_inner_cond(size, i, j) == j < (size + 2 * SizeMod - i - 1) % SizeMod

\* data[k]; outside the array the value read is any int
sort_read(data, k, any) == IF k \in DOMAIN data THEN data[k] ELSE any

\* if (data[j] > data[j + 1]) swap_integers(&data[j], &data[j + 1]);
\* the stores outside the array go to memory that is not the array
sort_compare_swap(data, j, any_j, any_j1) ==
    LET a == sort_read(data, j, any_j)
        b == sort_read(data, (j + 1) % SizeMod, any_j1)
    IN  IF a > b
        THEN [k \in DOMAIN data |->
                 IF k = j THEN b ELSE IF k = (j + 1) % SizeMod THEN a ELSE data[k]]
        ELSE data

sort_in_bounds(data, j) == j \in DOMAIN data /\ (j + 1) % SizeMod \in DOMAIN data

SortOuter ==
    /\ sort_pc = "outer"
    /\ IF sort_outer_cond(sort_size, sort_i)
       THEN sort_j' = 0 /\ sort_pc' = "inner"
       ELSE sort_j' = sort_j /\ sort_pc' = "done"
    /\ UNCHANGED <<sort_data, sort_size, sort_i, comparisons, sort_outside>>
    /\ UNCHANGED <<earlyVars, sensorVars, appVars>>

SortInner(any_j, any_j1) ==
    /\ sort_pc = "inner"
    /\ IF sort_inner_cond(sort_size, sort_i, sort_j)
       THEN /\ sort_data' = sort_compare_swap(sort_data, sort_j, any_j, any_j1)
            /\ comparisons' = comparisons + 1
            /\ sort_outside' = (sort_outside \/ ~sort_in_bounds(sort_data, sort_j))
            /\ sort_j' = (sort_j + 1) % SizeMod
            /\ UNCHANGED <<sort_i, sort_pc>>
       ELSE /\ sort_i' = (sort_i + 1) % SizeMod
            /\ sort_pc' = "outer"
            /\ UNCHANGED <<sort_data, sort_j, comparisons, sort_outside>>
    /\ UNCHANGED sort_size
    /\ UNCHANGED <<earlyVars, sensorVars, appVars>>

\* an access outside the array may also end the program
SortFault ==
    /\ sort_pc = "inner"
    /\ sort_inner_cond(sort_size, sort_i, sort_j)
    /\ ~sort_in_bounds(sort_data, sort_j)
    /\ sort_pc' = "fault"
    /\ comparisons' = comparisons + 1
    /\ sort_outside' = TRUE
    /\ UNCHANGED <<sort_data, sort_size, sort_i, sort_j>>
    /\ UNCHANGED <<earlyVars, sensorVars, appVars>>

\* sort_array(data, size) is entered: assert(size <= BUFFER_SIZE) passed
InitSortVars ==
    /\ sort_size \in 0..BUFFER_SIZE
    /\ sort_data \in [0..(sort_size - 1) -> SortValues]
    /\ sort_i = 0
    /\ sort_j = 0
    /\ sort_pc = "outer"
    /\ comparisons = 0
    /\ sort_outside = FALSE

NextSort ==
    \/ SortOuter
    \/ \E any_j, any_j1 \in SortValues : SortInner(any_j, any_j1)
    \/ SortFault

\* =========================================================== specifications
\* One family runs; the containers of the other families stay as initialised.
RingIdle == rsel = "msg" /\ InitRingVars
PoolIdle == psel = "ms" /\ InitPoolVars
HashIdle == hsel = "ms" /\ InitHashVars
ArenaIdle == arena = arena_create(ARENA_SIZE) /\ InitArenaVars
ListIdle == InitListVars
RetryIdle == InitRetryVars
CleanupIdle == InitCleanupVars
SensorIdle == InitSensorVars
AppIdle == InitAppVars
SortIdle == sort_size = 0 /\ InitSortVars
LateIdle == SensorIdle /\ AppIdle /\ SortIdle
MoreIdle == ArenaIdle /\ ListIdle /\ RetryIdle /\ CleanupIdle /\ LateIdle

InitRing == InitRingVars /\ PoolIdle /\ HashIdle /\ MoreIdle
SpecRing == InitRing /\ [][NextRing]_vars

InitPool == InitPoolVars /\ RingIdle /\ HashIdle /\ MoreIdle
SpecPool == InitPool /\ [][NextPool]_vars

InitHash == InitHashVars /\ RingIdle /\ PoolIdle /\ MoreIdle
SpecHash == InitHash /\ [][NextHash]_vars

ContainersIdle == RingIdle /\ PoolIdle /\ HashIdle

InitArena == InitArenaVars /\ ContainersIdle /\ ListIdle /\ RetryIdle /\ CleanupIdle /\ LateIdle
SpecArena == InitArena /\ [][NextArena]_vars

InitList == InitListVars /\ ContainersIdle /\ ArenaIdle /\ RetryIdle /\ CleanupIdle /\ LateIdle
SpecList == InitList /\ [][NextList]_vars

InitTraverse == InitTraverseVars /\ ContainersIdle /\ ArenaIdle /\ RetryIdle /\ CleanupIdle /\ LateIdle
SpecTraverse == InitTraverse /\ [][NextTraverse]_vars

InitRetry == InitRetryVars /\ ContainersIdle /\ ArenaIdle /\ ListIdle /\ CleanupIdle /\ LateIdle
SpecRetry == InitRetry /\ [][NextRetry]_vars

InitCleanup == InitCleanupVars /\ ContainersIdle /\ ArenaIdle /\ ListIdle /\ RetryIdle /\ LateIdle
SpecCleanup == InitCleanup /\ [][NextCleanup]_vars

EarlyIdle == ContainersIdle /\ ArenaIdle /\ ListIdle /\ RetryIdle /\ CleanupIdle

InitSensor == InitSensorVars /\ EarlyIdle /\ AppIdle /\ SortIdle
SpecSensor == InitSensor /\ [][NextSensor]_vars

InitApp == InitAppVars /\ EarlyIdle /\ SensorIdle /\ SortIdle
SpecApp == InitApp /\ [][NextApp]_vars

InitSort == InitSortVars /\ EarlyIdle /\ SensorIdle /\ AppIdle
SpecSort == InitSort /\ [][NextSort]_vars

\* ------------------------------------------------------ ring buffer claims
\* the caller's output variable, the count and the indices of the ring
\* buffer this run exercises
Out ==
    CASE rsel = "msg" -> msg_out
      [] rsel = "rb" -> byte_out
      [] rsel = "ev" -> event_out
Count ==
    CASE rsel = "msg" -> mq.count
      [] rsel = "rb" -> rb.count
      [] rsel = "ev" -> eq.count

\* C1: FIFO order.  fifo holds, oldest first, the items stored by the
\* successful pushes that no successful pop has returned yet, so before the
\* Nth successful pop its head is the item of the Nth successful push: every
\* successful pop hands exactly that item to the caller, whatever the
\* interleaving and also once the indices have wrapped.
C1_FifoOrder ==
    [][(rop' = "pop" /\ rret' = TRUE)
         => (/\ npop' = npop + 1
             /\ npop' <= npush
             /\ Out' = Head(fifo))]_vars

\* a pop that succeeded after more pops than the array has slots, between
\* pushes that left other items queued
C1_Witness ==
    /\ rsel = "rb"
    /\ rop = "pop" /\ rret = TRUE
    /\ npop > MAX_BUFFER_SIZE
    /\ rb.count > 0
    /\ byte_out = 11

\* C2: in every reachable state of every ring buffer the count lies in
\* 0..capacity and both indices lie in 0..capacity-1.
C2_RingBounds ==
    /\ mq.count \in 0..MS_MAX_MESSAGES
    /\ mq.head \in 0..(MS_MAX_MESSAGES - 1)
    /\ mq.tail \in 0..(MS_MAX_MESSAGES - 1)
    /\ rb.count \in 0..MAX_BUFFER_SIZE
    /\ rb.head \in 0..(MAX_BUFFER_SIZE - 1)
    /\ rb.tail \in 0..(MAX_BUFFER_SIZE - 1)
    /\ eq.count \in 0..MAX_EVENTS
    /\ eq.head \in 0..(MAX_EVENTS - 1)
    /\ eq.tail \in 0..(MAX_EVENTS - 1)

\* a full MessageQueue whose indices have moved off 0 and wrapped
C2_Witness ==
    /\ rsel = "msg"
    /\ mq.count = MS_MAX_MESSAGES
    /\ mq.head = mq.tail
    /\ mq.head > 0
    /\ npush > MS_MAX_MESSAGES

\* C3: a push on a full ring buffer returns false and changes neither the
\* items nor the indices nor the count; of the pushes called in a row on an
\* empty buffer the first capacity ones succeed and the next one fails.
C3_PushFull ==
    [][(rop' = "push")
         => (/\ (Count = Capacity)
                  => (rret' = FALSE /\ UNCHANGED <<mq, rb, eq>>)
             /\ (run' \in 1..Capacity) => (rret' = TRUE)
             /\ (run' = Capacity + 1) => (rret' = FALSE))]_vars

\* the push after capacity successful ones in a row was rejected
C3_Witness ==
    /\ rsel = "ev"
    /\ rop = "push" /\ rret = FALSE
    /\ run = MAX_EVENTS + 1
    /\ eq.count = MAX_EVENTS
    /\ Len(fifo) = MAX_EVENTS

\* C4: a pop on an empty ring buffer returns false and changes neither the
\* items, the indices, the count nor the caller's output variable.
C4_PopEmpty ==
    [][(rop' = "pop" /\ Count = 0)
         => (/\ rret' = FALSE
             /\ UNCHANGED <<mq, rb, eq, msg_out, byte_out, event_out>>)]_vars

\* a rejected pop on a MessageQueue that earlier pops emptied: the caller
\* still holds the message of the last successful pop
C4_Witness ==
    /\ rsel = "msg"
    /\ rop = "pop" /\ rret = FALSE
    /\ npop > 0 /\ npop = npush
    /\ msg_out # ZeroMessage

\* a rejected pop on a freshly initialised EventQueue
C4_WitnessFresh ==
    /\ rsel = "ev"
    /\ rop = "pop" /\ rret = FALSE
    /\ npush = 0
    /\ event_out = ZeroEvent

\* ------------------------------------------------------ object pool claims
\* size, slots in use and counter of the pool this run exercises
PoolCapacity == IF psel = "ms" THEN POOL_SIZE ELSE MAX_OBJECTS
PoolSlots ==
    IF psel = "ms" THEN DOMAIN ms_pool.objects ELSE DOMAIN r3_pool.objects
SlotActive(i) ==
    IF psel = "ms" THEN ms_pool.objects[i].in_use
    ELSE r3_pool.objects[i].active
ActiveSlots == {i \in PoolSlots : SlotActive(i)}
\* obj points at one of the objects of the pool's array
InArray(obj) == \E i \in 0..(PoolCapacity - 1) : obj = ObjAddr(i)

\* C5: pool_release with a pointer that does not point inside the pool's
\* object array, or at a slot that is already inactive, changes no slot and
\* leaves allocated_count as it was, in both pools.
C5_ReleaseRejected ==
    [][(/\ pop' = "release"
        /\ \/ ~InArray(parg')
           \/ ~SlotActive(parg' - ObjAddr(0)))
         => UNCHANGED <<ms_pool, r3_pool>>]_vars

\* a second release of slot 0 while slot 1 is held and written
C5_Witness ==
    /\ psel = "ms"
    /\ pop = "release" /\ parg = ObjAddr(0)
    /\ plog = "Double free detected"
    /\ ms_pool.objects[1].in_use /\ ms_pool.objects[1].data = 1
    /\ ms_pool.allocated_count = 1

\* a release of the address one past the array of g_object_pool
C5_WitnessForeign ==
    /\ psel = "r3"
    /\ pop = "release" /\ parg = ObjAddr(MAX_OBJECTS)
    /\ plog = "ERROR: Object not from pool"
    /\ r3_pool.allocated_count = MAX_OBJECTS

\* C6: when every slot is active pool_acquire returns NULL and changes
\* neither a slot nor allocated_count nor the number of slots; the call is
\* possible in every state (it never waits for a slot).
C6_AcquireExhausted ==
    /\ [][(pop' = "acquire" /\ ActiveSlots = PoolSlots)
            => (pret' = NULL /\ UNCHANGED <<ms_pool, r3_pool>>)]_vars
    /\ [](ENABLED (MsPoolAcquire \/ R3PoolAcquire))

\* pool_acquire on the exhausted g_object_pool
C6_Witness ==
    /\ psel = "r3"
    /\ pop = "acquire" /\ pret = NULL
    /\ plog = "WARNING: Object pool exhausted"
    /\ r3_pool.allocated_count = MAX_OBJECTS
    /\ \A i \in 0..(MAX_OBJECTS - 1) : r3_pool.objects[i].active

\* C7: whatever pool_init, pool_acquire and pool_release calls were made,
\* the number of active slots is at most the capacity of the pool, whose
\* array keeps its POOL_SIZE / MAX_OBJECTS slots.
C7_ActiveAtMostCapacity ==
    /\ Cardinality({i \in DOMAIN ms_pool.objects :
                      ms_pool.objects[i].in_use}) <= POOL_SIZE
    /\ Cardinality({i \in DOMAIN r3_pool.objects :
                      r3_pool.objects[i].active}) <= MAX_OBJECTS
    /\ DOMAIN ms_pool.objects = 0..(POOL_SIZE - 1)
    /\ DOMAIN r3_pool.objects = 0..(MAX_OBJECTS - 1)

\* the pool filled up again: slot 0, released before, was handed out last
C7_Witness ==
    /\ psel = "ms"
    /\ pop = "acquire" /\ pret = ObjAddr(0)
    /\ parg = ObjAddr(0)
    /\ Cardinality(ActiveSlots) = POOL_SIZE

\* ------------------------------------------------------- hash table claims
\* the occupied slots of a table, and whether one of them holds key
Occupied(table) == {i \in DOMAIN table.entries : table.entries[i].occupied}
Present(table, key) == \E i \in Occupied(table) : table.entries[i].key = key
\* the table this run exercises, before and after the step
Table == IF hsel = "ms" THEN ms_table ELSE r3_table
TableAfter == IF hsel = "ms" THEN ms_table' ELSE r3_table'
\* what a get / lookup of key answers on table
Found(table, key) ==
    IF hsel = "ms" THEN ms_hash_table_get(table, key, <<>>, VALUE_SIZE)
    ELSE r3_hash_table_lookup(table, key, 0)

\* C8: after any sequence of inserts, every key whose insert returned true
\* is found by a get / lookup of that key, in both tables, for keys of every
\* value and length.
C8_InsertedKeysFound == \A k \in ok_keys : Found(Table, k).ret

\* the part of C8 the code keeps: integer keys, and string keys that fit
\* in KEY_SIZE - 1 characters, are found once inserted
C8_FittingKeysFound ==
    \A k \in ok_keys :
        (hsel = "ms" => Len(k) <= KEY_SIZE - 1) => Found(Table, k).ret

\* a value as an entry can hold it: a string value keeps its first
\* VALUE_SIZE - 1 characters
Held(value) == IF hsel = "ms" THEN strncpy(value, VALUE_SIZE - 1) ELSE value

\* C9: inserting a key that is present returns true, leaves the number of
\* occupied entries and HashTable.count as they were, and a get / lookup of
\* the key then yields the value just inserted (as far as an entry holds it).
C9_ReinsertUpdates ==
    [][(hop' = "insert" /\ Present(Table, hkey'))
         => (/\ hret' = TRUE
             /\ Cardinality(Occupied(TableAfter)) = Cardinality(Occupied(Table))
             /\ ms_table'.count = ms_table.count
             /\ Found(TableAfter, hkey').ret
             /\ Found(TableAfter, hkey').out = Held(hval'))]_vars

\* C10: inserting a key that is not present into a table whose every slot
\* is occupied returns false and changes no entry and no count.
C10_InsertFull ==
    [][(/\ hop' = "insert"
        /\ Occupied(Table) = DOMAIN Table.entries
        /\ ~Present(Table, hkey'))
         => (hret' = FALSE /\ UNCHANGED <<ms_table, r3_table>>)]_vars

\* a rejected insert of "b" into the full string-keyed table
C10_Witness ==
    /\ hsel = "ms"
    /\ hop = "insert" /\ hret = FALSE
    /\ hkey = <<98>>
    /\ Occupied(ms_table) = DOMAIN ms_table.entries
    /\ ms_table.count = MS_HASH_TABLE_SIZE
    /\ ~Present(ms_table, <<98>>)

\* a rejected insert into the full integer-keyed table
C10_WitnessR3 ==
    /\ hsel = "r3"
    /\ hop = "insert" /\ hret = FALSE
    /\ Occupied(r3_table) = DOMAIN r3_table.entries
    /\ ~Present(r3_table, hkey)

\* C17 as stated: msg_queue_push on an empty MessageQueue followed by
\* msg_queue_pop yields a message whose text and priority equal the ones
\* pushed, for every priority and every text of any length.
C17_RoundTrip ==
    [][(/\ rsel = "msg"
        /\ rop = "push" /\ rret /\ mq.count = 1
        /\ rop' = "pop")
         => (/\ rret'
             /\ msg_out'.text = pushed.text
             /\ msg_out'.priority = pushed.priority)]_vars

\* C17 amended: msg_queue_push on an empty MessageQueue followed by
\* msg_queue_pop yields a message whose priority equals the one pushed and
\* whose text is the text pushed when that is shorter than MESSAGE_SIZE,
\* and its first MESSAGE_SIZE - 1 characters otherwise.
C17_RoundTripTruncated ==
    [][(/\ rsel = "msg"
        /\ rop = "push" /\ rret /\ mq.count = 1
        /\ rop' = "pop")
         => (/\ rret'
             /\ msg_out'.priority = pushed.priority
             /\ IF Len(pushed.text) < MESSAGE_SIZE
                THEN msg_out'.text = pushed.text
                ELSE msg_out'.text = SubSeq(pushed.text, 1, MESSAGE_SIZE - 1))]_vars

\* a text of MESSAGE_SIZE characters pushed on the empty queue and popped
C17_Witness ==
    /\ rsel = "msg"
    /\ rop = "pop" /\ rret
    /\ npush = 1 /\ npop = 1
    /\ Len(pushed.text) = MESSAGE_SIZE
    /\ Len(msg_out.text) = MESSAGE_SIZE - 1
    /\ msg_out.priority = pushed.priority

\* a text shorter than MESSAGE_SIZE pushed on the emptied queue and popped
C17_WitnessShort ==
    /\ rsel = "msg"
    /\ rop = "pop" /\ rret
    /\ npush = npop /\ npush > MS_MAX_MESSAGES
    /\ Len(pushed.text) = MESSAGE_SIZE - 1
    /\ msg_out.text = pushed.text

\* the slot the key of the last call hashes to
HashOfKey == IF hsel = "ms" THEN hash_string(hkey) ELSE hash_function(hkey)

\* C18: insert and get/lookup examine the slots h, h+1, h+2, ... wrapping
\* modulo capacity, from h = hash(key) mod capacity; one call examines each
\* slot at most once and gives up after at most capacity probes.
C18_ProbeOrder ==
    (hop \in {"insert", "get"}) =>
        LET cap == Cardinality(DOMAIN Table.entries) IN
          /\ Len(hseen) >= 1
          /\ Len(hseen) <= cap
          /\ \A k \in 1..Len(hseen) : hseen[k] = (HashOfKey + (k - 1)) % cap
          /\ \A j, k \in 1..Len(hseen) : j # k => hseen[j] # hseen[k]

\* a get of the string-keyed table that examined every slot, wrapping from
\* the last slot to the first, and did not find the key
C18_Witness ==
    /\ hsel = "ms"
    /\ hop = "get" /\ hret = FALSE
    /\ Len(hseen) = MS_HASH_TABLE_SIZE
    /\ hseen[1] # 0

\* an insert into the full integer-keyed table that examined every slot
C18_WitnessR3 ==
    /\ hsel = "r3"
    /\ hop = "insert" /\ hret = FALSE
    /\ Len(hseen) = R3_HASH_TABLE_SIZE
    /\ hseen[1] # 0

\* ------------------------------------------------------------ arena claims
\* size rounded up to the next multiple of 8, as a number
roundup8(size) == ((size + 7) \div 8) * 8

\* C11: arena_alloc with size > 0 returns NULL and leaves used unchanged
\* exactly when used + roundup8(size) > capacity; otherwise it returns the
\* region at the old used offset and advances used by roundup8(size).
C11_AllocContract ==
    [][(aop' = "alloc" /\ asize' > 0)
         => IF arena.used + roundup8(asize') > arena.capacity
            THEN aret' = NULL /\ arena' = arena
            ELSE /\ aret' = ARENA_BUF + arena.used
                 /\ arena' = [arena EXCEPT !.used = arena.used + roundup8(asize')]]_vars

\* C11 for the sizes whose rounding does not wrap the size_t
C11_AllocContractNoWrap ==
    [][(aop' = "alloc" /\ asize' > 0 /\ asize' + 7 < SizeMod
                       /\ arena.used + roundup8(asize') < SizeMod)
         => IF arena.used + roundup8(asize') > arena.capacity
            THEN aret' = NULL /\ arena' = arena
            ELSE /\ aret' = ARENA_BUF + arena.used
                 /\ arena' = [arena EXCEPT !.used = arena.used + roundup8(asize')]]_vars

\* C12: in every state reachable from arena_create by arena_alloc and
\* arena_reset calls, used <= capacity.
C12_UsedWithinCapacity == arena.used <= arena.capacity

\* an allocation refused by an arena that has no room for 8 more bytes
C12_Witness ==
    /\ aop = "alloc" /\ asize > 0 /\ aret = NULL
    /\ arena.used > 0
    /\ arena.used + 8 > arena.capacity

\* C13: every successful arena_alloc returns an offset from the start of
\* the buffer that is a multiple of 8, and used is a multiple of 8 in every
\* reachable state.
C13_Aligned ==
    /\ arena.used % 8 = 0
    /\ (aop = "alloc" /\ aret # NULL) => (aret - ARENA_BUF) % 8 = 0

\* a 9 byte allocation that followed an allocation of a size that is no
\* multiple of 8
C13_Witness ==
    /\ aop = "alloc" /\ aret # NULL
    /\ Len(since) = 2 /\ since[1] = 1 /\ since[2] = 9
    /\ aret - ARENA_BUF = 8
    /\ arena.used = 24

\* the calls sizes[i..] made in turn on arena a, last being the result of
\* the call before
RECURSIVE Replay(_, _, _, _)
Replay(a, sizes, i, last) ==
    IF i > Len(sizes) THEN [arena |-> a, ret |-> last]
    ELSE LET r == arena_alloc(a, sizes[i]) IN Replay(r.arena, sizes, i + 1, r.ret)

\* C14: after arena_reset used is 0, and the arena_alloc calls that follow
\* return the same offsets and the same results as those calls made on a
\* freshly created arena of the same capacity.
C14_ResetLikeFresh ==
    was_reset =>
        /\ (aop = "reset" => arena.used = 0)
        /\ (aop = "alloc" =>
              LET fresh == Replay(arena_create(arena.capacity), since, 1, NULL) IN
                /\ arena = fresh.arena
                /\ aret = fresh.ret)

\* allocations made, the arena reset, and two more made, the second refused
C14_Witness ==
    /\ was_reset
    /\ aop = "alloc" /\ aret = NULL /\ asize > 0
    /\ Len(since) = 2
    /\ arena.used > 0

\* C21: for every size_t size, those within 7 of the maximum included,
\* arena_alloc returns NULL whenever size exceeds capacity - used, and a
\* successful call returns a region with offset + size <= capacity.
C21_AllocWithinCapacity ==
    [][(aop' = "alloc" /\ asize' > 0)
         => /\ (asize' > arena.capacity - arena.used => aret' = NULL)
            /\ (aret' # NULL => (aret' - ARENA_BUF) + asize' <= arena.capacity)]_vars

\* C21 for the sizes that neither the rounding nor the sum wraps
C21_AllocWithinCapacityNoWrap ==
    [][(aop' = "alloc" /\ asize' > 0 /\ asize' + 7 < SizeMod
                       /\ arena.used + roundup8(asize') < SizeMod)
         => /\ (asize' > arena.capacity - arena.used => aret' = NULL)
            /\ (aret' # NULL => (aret' - ARENA_BUF) + asize' <= arena.capacity)]_vars

\* ------------------------------------------------------- StaticList claims
RECURSIVE Reverse(_)
Reverse(seq) ==
    IF seq = <<>> THEN <<>> ELSE Append(Reverse(Tail(seq)), Head(seq))

\* C15: after n <= MAX_NODES successful list_add calls with values v1..vn
\* the traversal of list_print visits exactly n nodes, all of them in use,
\* and yields vn, ..., v1.
C15_TraversalReversed ==
    (lop = "print" /\ lpc = "idle") =>
        /\ Len(visited) = Len(added)
        /\ \A k \in 1..Len(visited) : g_list.nodes[visited[k]].in_use
        /\ printed = Reverse(added)

\* list_print done on a full list of values that differ
C15_Witness ==
    /\ lop = "print" /\ lpc = "idle"
    /\ Len(added) = MAX_NODES
    /\ added[1] # added[MAX_NODES]
    /\ printed = Reverse(added)

\* list_print done on a list filled again after a list_init
C15_WitnessAgain ==
    /\ lop = "print" /\ lpc = "idle"
    /\ added = <<20>>
    /\ g_list.nodes[1].value = 10
    /\ printed = <<20>>

\* C16: the while loop of list_print ends after at most MAX_NODES
\* iterations for every assignment of in-range next indices, a chain
\* corrupted into a cycle included.
C16_TraversalBounded ==
    /\ iterations <= MAX_NODES
    /\ Len(visited) = iterations
    /\ (lpc = "loop" /\ iterations = MAX_NODES) => ~list_print_cond(lcurrent, iterations)

\* a node read a second time: list_print stopped on a cycle by its bound
C16_Witness ==
    /\ lop = "print" /\ lpc = "idle"
    /\ iterations = MAX_NODES
    /\ lcurrent # -1
    /\ \E j, k \in 1..Len(visited) : j < k /\ visited[j] = visited[k]

\* ------------------------------------------- good_retry_with_limit claims
\* C19: good_retry_with_limit makes at most MAX_RETRIES attempts whatever
\* the operation's outcomes, stops at the first attempt that succeeds, and
\* returns false if and only if all MAX_RETRIES attempts failed.
C19_RetryBounded ==
    /\ retries = Len(draws)
    /\ retries <= MAX_RETRIES
    /\ (tpc = "loop" /\ retries = MAX_RETRIES) => ~retry_cond(retries, succeeded)
    /\ \A k \in 1..(Len(draws) - 1) : draws[k] % 3 # 0
    /\ tpc = "done" =>
         (tret = FALSE <=> (/\ Len(draws) = MAX_RETRIES
                            /\ \A k \in 1..MAX_RETRIES : draws[k] % 3 # 0))

\* returned false after MAX_RETRIES failed attempts
C19_Witness ==
    /\ tpc = "done" /\ tret = FALSE
    /\ Len(draws) = MAX_RETRIES

\* returned true at the third attempt, the first to succeed
C19_WitnessSuccess ==
    /\ tpc = "done" /\ tret = TRUE
    /\ Len(draws) = 3
    /\ draws[3] = 3

\* ------------------------------------------------- cleanup pattern claims
\* the calls that acquire and those that release
AcquireOps == {"fopen", "malloc"}
ReleaseOps == {"fclose", "free"}
ReleaseOf(op) == IF op = "fopen" THEN "fclose" ELSE "free"
\* the places in the call's events where a resource was acquired, released
Acquisitions == {i \in 1..Len(cevents) :
                   cevents[i].op \in AcquireOps /\ cevents[i].h # NULL}
Releases == {i \in 1..Len(cevents) : cevents[i].op \in ReleaseOps}

\* C20: on every exit path of good_resource_management,
\* good_cleanup_pattern and good_checked_returns each file or buffer that
\* was acquired is released exactly once before the function returns, and
\* nothing that was not acquired is released.
C20_ReleasedOnce ==
    (cfn # "none") =>
        /\ \A i \in Acquisitions :
             Cardinality({j \in Releases :
                            /\ cevents[j].h = cevents[i].h
                            /\ cevents[j].op = ReleaseOf(cevents[i].op)
                            /\ j > i}) = 1
        /\ \A j \in Releases :
             \E i \in Acquisitions :
                /\ i < j
                /\ cevents[i].h = cevents[j].h
                /\ cevents[j].op = ReleaseOf(cevents[i].op)
        /\ Cardinality(Releases) = Cardinality(Acquisitions)

\* good_checked_returns left on a read failure, the file closed
C20_Witness ==
    /\ cfn = "gcr" /\ cret = STATUS_READ_ERROR
    /\ Cardinality(Acquisitions) = 1
    /\ cevents[Len(cevents)].op = "fclose"

\* good_cleanup_pattern left on the allocation failure, both files closed
C20_WitnessAlloc ==
    /\ cfn = "gcp" /\ cret = FALSE
    /\ Cardinality(Acquisitions) = 2
    /\ Cardinality(Releases) = 2

\* good_resource_management left after a read of no byte, the buffer
\* freed and the file closed
C20_WitnessRead ==
    /\ cfn = "grm" /\ cret = -1
    /\ Cardinality(Acquisitions) = 2
    /\ Cardinality(Releases) = 2

\* an open failure: nothing acquired, nothing released
C20_WitnessOpen ==
    /\ cfn \in {"grm", "gcp", "gcr"}
    /\ Len(cevents) = 1
    /\ Acquisitions = {} /\ Releases = {}

\* ------------------------------------------------------ sensor pool claims
\* C22: good_destroy_sensor(sensor) clears and marks inactive only the
\* sensor it is given; every other sensor of g_sensor_pool keeps its active
\* flag, name, data and data_count.
C22_DestroyOnlyGiven ==
    [][(sop' = "destroy" /\ g_sensor_pool.sensors[SensorIndex(sarg')].active)
         => /\ g_sensor_pool'.sensors[SensorIndex(sarg')] = ZeroSensor
            /\ \A i \in 0..(MAX_SENSORS - 1) :
                 i # SensorIndex(sarg')
                   => g_sensor_pool'.sensors[i] = g_sensor_pool.sensors[i]]_vars

\* C23: good_add_data_point returns false without modifying the sensor when
\* data_count = MAX_DATA_POINTS, so data_count <= MAX_DATA_POINTS after any
\* sequence of calls and every write lands in data[0..MAX_DATA_POINTS-1].
C23_AddBounded ==
    [][(sop' = "add")
         => /\ (g_sensor_pool.sensors[SensorIndex(sarg')].data_count = MAX_DATA_POINTS
                  => (sret' = FALSE /\ UNCHANGED g_sensor_pool))
            /\ \A i \in 0..(MAX_SENSORS - 1) :
                 g_sensor_pool'.sensors[i].data_count <= MAX_DATA_POINTS
            /\ soob' < MAX_DATA_POINTS]_vars

\* C23 for the calls made while data_count < MAX_DATA_POINTS
C23_AddBelowCapacity ==
    [][(sop' = "add"
        /\ g_sensor_pool.sensors[SensorIndex(sarg')].data_count < MAX_DATA_POINTS)
         => /\ g_sensor_pool'.sensors[SensorIndex(sarg')].data_count <= MAX_DATA_POINTS
            /\ soob' < MAX_DATA_POINTS]_vars

\* ------------------------------------------------------ application claims
SpiTransfers == {"spi_transfer_ok", "spi_transfer_fail"}
\* before call k of h the SPI was initialised with success and not
\* deinitialised since
SpiOpenAt(h, k) ==
    \E j \in 1..(k - 1) :
       /\ h[j] = "spi_init_ok"
       /\ \A m \in (j + 1)..(k - 1) : h[m] # "spi_deinit"

\* C24: in any sequence of app_init, app_run_cycle and app_shutdown on an
\* Application that starts zeroed, every SPI transfer comes after a
\* successful SPI init and before the deinit that follows it, a successful
\* SPI init is followed by at most one deinit, and app_run_cycle after
\* app_shutdown makes no driver call.
C24_SpiSequencing ==
    [][/\ \A k \in 1..Len(hal') :
            hal'[k] \in SpiTransfers \cup {"spi_deinit"} => SpiOpenAt(hal', k)
       /\ (apcall' = "run" /\ shut) => hal' = hal]_vars

\* initialised, a cycle run, shut down, and a cycle run again: it called
\* no driver, the deinit is the last call made
C24_Witness ==
    /\ apcall = "run" /\ shut /\ ~crashed
    /\ \E k \in 1..Len(hal) : hal[k] = "spi_transfer_ok"
    /\ hal[Len(hal)] = "spi_deinit"

\* app_init called twice and app_shutdown twice: one deinit
C24_WitnessTwice ==
    /\ apcall = "shutdown" /\ ncalls = 4 /\ ~crashed
    /\ Cardinality({k \in 1..Len(hal) : hal[k] = "spi_init_ok"}) = 2
    /\ Cardinality({k \in 1..Len(hal) : hal[k] = "spi_deinit"}) = 1

\* app_shutdown on the zeroed Application: led_off calls through a NULL
\* interface
C24_WitnessCrash == crashed /\ hal = <<>>

\* ------------------------------------------------------- sort_array claims
Sorted(data) == \A k \in DOMAIN data : (k + 1) \in DOMAIN data => data[k] <= data[k + 1]

\* C25: sort_array(data, size) makes at most size*(size-1)/2 comparisons and
\* reads or writes only indices in [0, size), for every size in
\* 0..BUFFER_SIZE, size_t arithmetic being modulo 2^w.
C25_SortBounded ==
    /\ 2 * comparisons <= sort_size * (sort_size - 1)
    /\ ~sort_outside

\* the same for size >= 1, where size - 1 does not wrap; the array is then
\* sorted when sort_array returns
C25_SortBoundedNonEmpty ==
    sort_size >= 1 =>
        /\ 2 * comparisons <= sort_size * (sort_size - 1)
        /\ ~sort_outside
        /\ sort_pc # "fault"
        /\ sort_pc = "done" => Sorted(sort_data)

\* sort_array(data, 0) compares once for every pair i < j below 2^w - 1 before
\* it returns
C25_SizeZeroReturns ==
    sort_size = 0 /\ sort_pc = "done" /\ 2 * comparisons = (SizeMod - 1) * SizeMod

\* ---------------------------------------------- object pool claims, further
\* C26: pool_acquire never hands out a slot that is held: from a successful
\* pool_acquire that returned slot i to the next accepted pool_release of
\* slot i no other pool_acquire returns slot i, whatever acquire and release
\* calls (rejected ones included) are made, in both pools.
C26_NoSlotTwice ==
    [][(pop' = "acquire" /\ pret' # NULL)
         => (pret' - ObjAddr(0)) \notin held]_vars

\* slot 0 handed out a second time, after its release, while slot 1 is held
C26_Witness ==
    /\ psel = "ms"
    /\ pop = "acquire" /\ pret = ObjAddr(0)
    /\ parg = ObjAddr(0)
    /\ held = {0, 1}
    /\ ms_pool.allocated_count = 2

\* the same in g_object_pool, slot 1 being the one given back
C26_WitnessR3 ==
    /\ psel = "r3"
    /\ pop = "acquire" /\ pret = ObjAddr(1)
    /\ parg = ObjAddr(1)
    /\ held = {0, 1}

\* C27: in both pools allocated_count is the number of slots whose in_use /
\* active flag is set, in every state reached by pool_init, pool_acquire
\* and pool_release calls, rejected releases included.
C27_CountMatchesFlags ==
    /\ ms_pool.allocated_count =
         Cardinality({i \in DOMAIN ms_pool.objects : ms_pool.objects[i].in_use})
    /\ r3_pool.allocated_count =
         Cardinality({i \in DOMAIN r3_pool.objects : r3_pool.objects[i].active})

\* a double free rejected in g_object_pool with two of its slots active
C27_Witness ==
    /\ psel = "r3"
    /\ pop = "release" /\ plog = "WARNING: Double free detected"
    /\ r3_pool.allocated_count = 2
    /\ r3_pool.objects[0].active /\ ~r3_pool.objects[1].active

\* a pointer outside the array rejected by the pool of memory_safety.c, full
C27_WitnessMs ==
    /\ psel = "ms"
    /\ pop = "release" /\ plog = "Object not from this pool"
    /\ ms_pool.allocated_count = POOL_SIZE

\* ---------------------------------------------- ring buffer claims, further
\* C28: in every ring buffer the distance from the read index to the write
\* index, modulo the capacity, is count modulo the capacity in every
\* reachable state; so the two indices are equal exactly when the buffer is
\* empty or full.  (MessageQueue reads at head and writes at tail,
\* RingBuffer and EventQueue read at tail and write at head.)
C28_IndexDistance ==
    /\ (mq.tail + MS_MAX_MESSAGES - mq.head) % MS_MAX_MESSAGES
         = mq.count % MS_MAX_MESSAGES
    /\ (rb.head + MAX_BUFFER_SIZE - rb.tail) % MAX_BUFFER_SIZE
         = rb.count % MAX_BUFFER_SIZE
    /\ (eq.head + MAX_EVENTS - eq.tail) % MAX_EVENTS = eq.count % MAX_EVENTS
    /\ (mq.head = mq.tail) <=> (mq.count \in {0, MS_MAX_MESSAGES})
    /\ (rb.head = rb.tail) <=> (rb.count \in {0, MAX_BUFFER_SIZE})
    /\ (eq.head = eq.tail) <=> (eq.count \in {0, MAX_EVENTS})

\* an EventQueue whose write index has wrapped below its read index
C28_Witness ==
    /\ rsel = "ev"
    /\ eq.head < eq.tail
    /\ eq.count = MAX_EVENTS - 1
    /\ rop = "pop" /\ rret = TRUE

\* a RingBuffer emptied with both indices off 0, and a pop refused on it
C28_WitnessEmpty ==
    /\ rsel = "rb"
    /\ rb.count = 0 /\ rb.head = rb.tail /\ rb.head > 0
    /\ rop = "pop" /\ rret = FALSE

\* a full MessageQueue, a push refused on it
C28_WitnessFull ==
    /\ rsel = "msg"
    /\ mq.count = MS_MAX_MESSAGES /\ mq.head = mq.tail /\ mq.head > 0
    /\ rop = "push" /\ rret = FALSE

\* ----------------------------------------------- hash table claims, further
NoDuplicateKeys(table) ==
    \A i, j \in Occupied(table) :
        i # j => table.entries[i].key # table.entries[j].key

\* C29: in both hash tables, after any sequence of inserts, no two occupied
\* entries hold the same key.
C29_NoDuplicateKeys == NoDuplicateKeys(ms_table) /\ NoDuplicateKeys(r3_table)

\* the same for the string-keyed table while every key inserted so far fits
\* the key buffer (fewer than KEY_SIZE characters)
C29_NoDuplicateFittingKeys ==
    (hsel = "ms" /\ \A k \in ok_keys : Len(k) < KEY_SIZE)
        => NoDuplicateKeys(ms_table)

\* ------------------------------------------------ StaticList claims, further
\* the indices met following next from cur, -1 excluded, for at most fuel
\* steps; an index outside the array ends the walk
RECURSIVE Chain(_, _, _)
Chain(list, cur, fuel) ==
    IF cur = -1 \/ fuel = 0 THEN <<>>
    ELSE IF cur \notin DOMAIN list.nodes THEN <<cur>>
    ELSE <<cur>> \o Chain(list, list.nodes[cur].next, fuel - 1)

InUse(list) == {i \in DOMAIN list.nodes : list.nodes[i].in_use}

\* C30: in every state reached by list_init and list_add calls, accepted or
\* rejected, following next from head reaches -1 after exactly count steps
\* and visits no node twice, every node visited is in use, and count is the
\* number of nodes in use and at most MAX_NODES.
C30_ChainWellFormed ==
    LET c == Chain(g_list, g_list.head, MAX_NODES + 1) IN
      /\ Len(c) = g_list.count
      /\ \A j, k \in 1..Len(c) : j # k => c[j] # c[k]
      /\ \A k \in 1..Len(c) : c[k] \in InUse(g_list)
      /\ g_list.count = Cardinality(InUse(g_list))
      /\ g_list.count <= MAX_NODES

\* list_add refused on the full list
C30_Witness ==
    /\ lop = "add" /\ lret = FALSE
    /\ g_list.count = MAX_NODES
    /\ Chain(g_list, g_list.head, MAX_NODES + 1) = [k \in 1..MAX_NODES |-> MAX_NODES - k]
    /\ Len(added) = MAX_NODES

\* one node added after list_init emptied a list that held nodes: the
\* nodes left of the earlier list keep their values and are not in use
C30_WitnessAfterInit ==
    /\ lop = "add" /\ lret = TRUE
    /\ g_list.count = 1 /\ g_list.head = 0
    /\ g_list.nodes[0].next = -1
    /\ g_list.nodes[1].value # 0 /\ ~g_list.nodes[1].in_use
====
